---- MODULE Spec2Model ----
(***************************************************************************)
(* LiveChatter (src/livechatter.py): the ChatReader worker thread          *)
(* (supervised ingestion with reconnect/backoff and the chat-downloader    *)
(* fallback), the queued Qt signals that carry its output to the GUI       *)
(* thread, and the MainWindow handlers that own the message buffer and     *)
(* the periodic summary timer.                                             *)
(*                                                                         *)
(* Threads.  Every ChatReader runs on its own thread; MainWindow handlers  *)
(* run on the GUI thread.  A signal emitted by run() is delivered through  *)
(* a queued connection, modelled by the FIFO `queue`.  The only memory     *)
(* shared between the two sides is the reader's _stop event.               *)
(*                                                                         *)
(* Time.  Thread sleeps and the join in _on_stop are measured in           *)
(* milliseconds on the thread clock advanced by Tick: computation takes    *)
(* no time, a sleep lasts exactly its duration, a network call may take    *)
(* any time.  The summary baseline (time.time() - last_summary_ts) is      *)
(* kept as `elapsed` and advanced by the GUI timer clock, one timer        *)
(* period per call of _maybe_do_summary; the two clocks are not coupled,   *)
(* so every relative rate of the two is covered.                           *)
(***************************************************************************)
EXTENDS Integers, Sequences, FiniteSets, TLC

----------------------------------------------------------------------------
(* Bounds of the model *)

MaxReaders == 1
MaxConnects == 3
MaxMsgs == 2
MaxItems == 2
MaxQueue == 2
MaxMins == 1

(* Program constants, in milliseconds *)

PollMs == 500
BackoffMs == 10000
JoinWaitMs == 2000
TimerMs == 5000
MsPerMinute == 60000

DefaultQuickCount == 50
MinQuickCount == 5
MaxQuickCount == 500

MaxOverlap == 2

Readers == 1..(IF MaxOverlap > MaxReaders THEN MaxOverlap ELSE MaxReaders)

CHAT_MODES == << "Standard (read messages)", "Summaries (periodic)" >>

----------------------------------------------------------------------------
(* Text.  A Python str is a sequence of one-character strings. *)

LOST_TEXT ==
    << "C", "h", "a", "t", " ", "c", "o", "n", "n", "e", "c", "t", "i", "o", "n", " ", "l",
       "o", "s", "t", ".", " ", "R", "e", "c", "o", "n", "n", "e", "c", "t", "i", "n", "g",
       " ", "i", "n", " ", "1", "0", " ", "s", "e", "c", "o", "n", "d", "s", ".", ".", "." >>

READER_ERR_PREFIX ==
    << "C", "h", "a", "t", " ", "r", "e", "a", "d", "e", "r", " ", "e", "r", "r", "o", "r",
       ":", " " >>

READER_ERR_SUFFIX ==
    << ".", " ", "R", "e", "t", "r", "y", "i", "n", "g", " ", "i", "n", " ", "1", "0", " ",
       "s", "e", "c", "o", "n", "d", "s", ".", ".", "." >>

DISABLED_TEXT ==
    << "L", "i", "v", "e", " ", "c", "h", "a", "t", " ", "i", "s", " ", "d", "i", "s", "a",
       "b", "l", "e", "d", " ", "f", "o", "r", " ", "t", "h", "i", "s", " ", "s", "t", "r",
       "e", "a", "m", "." >>

DOWNLOADER_ERR_PREFIX ==
    << "C", "h", "a", "t", " ", "d", "o", "w", "n", "l", "o", "a", "d", "e", "r", " ", "e",
       "r", "r", "o", "r", ":", " " >>

NO_BACKEND_TEXT ==
    << "N", "o", " ", "c", "h", "a", "t", " ", "b", "a", "c", "k", "e", "n", "d", " ", "i",
       "s", " ", "a", "v", "a", "i", "l", "a", "b", "l", "e", ".", " ", "I", "n", "s", "t",
       "a", "l", "l", " ", "'", "p", "y", "t", "c", "h", "a", "t", "'", " ", "o", "r", " ",
       "'", "c", "h", "a", "t", "-", "d", "o", "w", "n", "l", "o", "a", "d", "e", "r", "'",
       "." >>

KW_RECONNECTING ==
    << "r", "e", "c", "o", "n", "n", "e", "c", "t", "i", "n", "g" >>

KW_CONNECTION_LOST ==
    << "c", "o", "n", "n", "e", "c", "t", "i", "o", "n", " ", "l", "o", "s", "t" >>

KW_DISABLED ==
    << "d", "i", "s", "a", "b", "l", "e", "d" >>

EXC_TIMEOUT ==
    << "t", "i", "m", "e", "d", " ", "o", "u", "t" >>

EXC_CHAT_DISABLED ==
    << "C", "h", "a", "t", " ", "i", "s", " ", "D", "i", "s", "a", "b", "l", "e", "d", " ",
       "f", "o", "r", " ", "t", "h", "i", "s", " ", "l", "i", "v", "e", " ", "s", "t", "r",
       "e", "a", "m" >>

UPPER ==
    << "A", "B", "C", "D", "E", "F", "G", "H", "I", "J", "K", "L", "M", "N", "O", "P", "Q",
       "R", "S", "T", "U", "V", "W", "X", "Y", "Z" >>

LOWER ==
    << "a", "b", "c", "d", "e", "f", "g", "h", "i", "j", "k", "l", "m", "n", "o", "p", "q",
       "r", "s", "t", "u", "v", "w", "x", "y", "z" >>


LowerChar(c) ==
    IF \E i \in 1..Len(UPPER) : UPPER[i] = c
    THEN LOWER[CHOOSE i \in 1..Len(UPPER) : UPPER[i] = c]
    ELSE c

(* str.lower() *)
Lower(s) == [i \in 1..Len(s) |-> LowerChar(s[i])]

(* needle in hay *)
Contains(needle, hay) ==
    \E i \in 1..(Len(hay) - Len(needle) + 1) :
        SubSeq(hay, i, i + Len(needle) - 1) = needle

(* str(e) of the exceptions a backend call can raise *)
Exceptions == {"timeout", "chat_disabled"}

ExcText(e) == IF e = "timeout" THEN EXC_TIMEOUT ELSE EXC_CHAT_DISABLED

(* The strings run() passes to error_message.emit, by format and argument *)
ErrLost == [fmt |-> "lost", e |-> "-"]
ErrReader(e) == [fmt |-> "reader_err", e |-> e]
ErrDisabled == [fmt |-> "disabled", e |-> "-"]
ErrDownloader(e) == [fmt |-> "downloader_err", e |-> e]
ErrNoBackend == [fmt |-> "no_backend", e |-> "-"]

ErrText(err) ==
    CASE err.fmt = "lost" -> LOST_TEXT
      [] err.fmt = "reader_err" -> READER_ERR_PREFIX \o ExcText(err.e) \o READER_ERR_SUFFIX
      [] err.fmt = "disabled" -> DISABLED_TEXT
      [] err.fmt = "downloader_err" -> DOWNLOADER_ERR_PREFIX \o ExcText(err.e)
      [] OTHER -> NO_BACKEND_TEXT


----------------------------------------------------------------------------
(* State *)

VARIABLES
    pytchat,            \* module-level `pytchat` is not None
    ChatDownloader,     \* module-level `ChatDownloader` is not None
    pc,                 \* per reader: position of its thread in run() ("none": no such
                        \* ChatReader exists)
    stop,               \* per reader: _stop.is_set()
    chat,               \* per reader: the local `chat` / `downloader`
    items,              \* per reader: items of the current poll not emitted yet
    exc,                \* per reader: the exception being handled
    sleepLeft,          \* per reader: remaining time of the current time.sleep
    handles,            \* per reader: backend handles opened and not terminated
    connects,           \* per reader: connect calls begun
    lateConnects,       \* per reader: connect calls begun while _stop was set
    opened,             \* per reader: connect calls that returned a handle
    sinceExit,          \* per reader: time since the last loop exit, -1 if none
    nErrs,              \* per reader: number of error_message.emit() calls
    nRecon,             \* per reader: those of them _on_error shows as status notices
    lastErr,            \* per reader: argument of the last error_message.emit()
    nStopped,           \* per reader: number of stopped.emit() calls
    queue,              \* queued signal deliveries waiting for the GUI thread
    reader,             \* MainWindow.reader (0 is None)
    start_btn,          \* start_btn.isEnabled()
    stop_btn,           \* stop_btn.isEnabled()
    pending_messages,   \* MainWindow.pending_messages
    elapsed,            \* time.time() - last_summary_ts (capped)
    chat_mode,          \* chat_mode.currentText()
    summary_interval,   \* summary_interval.value()
    gui,                \* "idle", or "stop_wait" inside reader.wait(2000)
    waitLeft,           \* remaining time of reader.wait(2000)
    modal,              \* a QMessageBox.warning dialog is open (it blocks its caller)
    batches,            \* the lists handed to Summarizer.summarize by flushes
    quick_summary_count,\* quick_summary_count_sb.value()
    spoken,             \* the tts.speak calls of the MainWindow slot that ran last
    summarized,         \* the summarizer.summarize calls of that slot
    nextId,             \* id of the next chat item the platform delivers
    slots,              \* ChatReader objects that can be alive at once in this model
    openai,             \* module-level `openai` is not None
    api_key,            \* cfg["openai_api_key"] is not empty
    messages,           \* Summarizer.summarize: its argument
    response,           \* what client.chat.completions.create does when it is called
    prompt_text,        \* the _summarize_with_openai calls of summarize (their argument)
    summary,            \* what summarize returns (NoReturn before the call)
    win32,              \* win32 and pythoncom are not None and the platform is Windows
    AO2Auto,            \* accessible_output2 was imported (AO2Auto and sapi5 are set)
    tts_option,         \* cfg["tts_option"]
    system_tts_backend, \* cfg["system_tts_backend"]
    system_out,         \* TTSManager.system_out
    calls,              \* the TTSManager.speak calls made, in call order; a call of the
                        \* direct SAPI5 path carries the state of the thread it started
    ended,              \* the calls whose thread has ended, in the order they ended
    url_edit,           \* url_edit.text()
    url_or_id,          \* extract_youtube_video_id: its argument
    vid,                \* what extract_youtube_video_id returns (NoCall before the call)
    narrated            \* ids of the messages _on_message has handed to tts.speak, each
                        \* on its own (written by DeliverNarrated only)

sumvars == << openai, api_key, messages, response, prompt_text, summary >>
ttsvars == << win32, AO2Auto, tts_option, system_tts_backend, system_out, calls, ended >>
urlvars == << url_edit, url_or_id, vid >>
(* what no ChatReader step and no MainWindow handler below writes *)
envvars == << pytchat, ChatDownloader, slots, sumvars, ttsvars, urlvars, narrated >>
thread == << pc, stop, chat, items, exc, sleepLeft >>
counts == << handles, connects, lateConnects, opened >>
emits == << nErrs, nRecon, lastErr >>
rvars == << thread, counts, sinceExit, emits, nStopped >>
outs == << spoken, summarized >>
guivars == << reader, start_btn, stop_btn, pending_messages, elapsed, chat_mode,
              summary_interval, quick_summary_count, gui, waitLeft, modal, batches,
              outs >>
vars == << envvars, rvars, queue, guivars, nextId >>

ElapsedCap == MaxMins * MsPerMinute

Min(a, b) == IF a < b THEN a ELSE b
Max(a, b) == IF a > b THEN a ELSE b

(* The text of the n-th chat item: "hi", "hi!", "hi!!", ... *)
MsgText(n) == << "h", "i" >> \o [i \in 1..(n - 1) |-> "!"]

(* One chat item as pytchat delivers it, normalised by run() (lines 524-530) *)
Msg(n) ==
    [id |-> n, author |-> << "a" >>, text |-> MsgText(n), type |-> "textMessage",
     is_moderator |-> FALSE, is_verified |-> FALSE]

(* One chat-downloader item: only text messages are forwarded (line 562) *)
RawTypes == {"text_message", "paid_message"}
Raw(n, t) == [id |-> n, message_type |-> t]

Signal(sig, r, arg) == [sig |-> sig, rd |-> r, arg |-> arg]
NoArg == [none |-> TRUE]
NoErr == [fmt |-> "-", e |-> "-"]

Room == Len(queue) < MaxQueue

----------------------------------------------------------------------------
(* extract_youtube_video_id (lines 207-215) *)

WHITESPACE == {" ", "\t", "\n"}

RECURSIVE LStrip(_)
LStrip(s) == IF s # << >> /\ Head(s) \in WHITESPACE THEN LStrip(Tail(s)) ELSE s

RECURSIVE RStrip(_)
RStrip(s) ==
    IF s # << >> /\ s[Len(s)] \in WHITESPACE THEN RStrip(SubSeq(s, 1, Len(s) - 1)) ELSE s

(* str.strip() *)
Strip(s) == RStrip(LStrip(s))

DIGITS == << "0", "1", "2", "3", "4", "5", "6", "7", "8", "9" >>

Chars(s) == {s[i] : i \in 1..Len(s)}

(* the character class [A-Za-z0-9_-] and the repetition {11} *)
ID_CLASS == Chars(UPPER) \cup Chars(LOWER) \cup Chars(DIGITS) \cup {"_", "-"}
ID_LEN == 11

(* None, as the Optional[str] result *)
NoId == << "None" >>

(* re.fullmatch(r"[A-Za-z0-9_-]{11}", s) *)
FullMatchId(s) == Len(s) = ID_LEN /\ \A i \in 1..Len(s) : s[i] \in ID_CLASS

PAT_YOUTU_BE ==
    << "y", "o", "u", "t", "u", ".", "b", "e", "/" >>

PAT_V ==
    << "v", "=" >>

PAT_LIVE ==
    << "l", "i", "v", "e", "/" >>

(* the patterns with v= tried first *)
ReorderedPatterns == << PAT_V, PAT_YOUTU_BE, PAT_LIVE >>

(* line 211: the literal parts of the three patterns, in the order of the list *)
PATTERNS == << PAT_YOUTU_BE, PAT_V, PAT_LIVE >>

(* the literal, then eleven characters of the class, at position i of s *)
MatchAt(lit, s, i) ==
    /\ i + Len(lit) + ID_LEN - 1 <= Len(s)
    /\ SubSeq(s, i, i + Len(lit) - 1) = lit
    /\ FullMatchId(SubSeq(s, i + Len(lit), i + Len(lit) + ID_LEN - 1))

(* re.search(p, s) and m.group(1): the leftmost match *)
RECURSIVE SearchFrom(_, _, _)
SearchFrom(lit, s, i) ==
    IF i > Len(s) THEN NoId
    ELSE IF MatchAt(lit, s, i) THEN SubSeq(s, i + Len(lit), i + Len(lit) + ID_LEN - 1)
    ELSE SearchFrom(lit, s, i + 1)

(* lines 211-214: the first pattern of the list that matches *)
RECURSIVE FirstMatch(_, _)
FirstMatch(pats, s) ==
    IF pats = << >> THEN NoId
    ELSE LET m == SearchFrom(Head(pats), s, 1)
         IN  IF m # NoId THEN m ELSE FirstMatch(Tail(pats), s)

extract_youtube_video_id(arg) ==
    LET s == Strip(arg)
    IN  IF FullMatchId(s) THEN s ELSE FirstMatch(PATTERNS, s)

SCENARIO_URL ==
    << "h", "t", "t", "p", "s", ":", "/", "/", "w", "w", "w", ".", "y", "o", "u", "t",
       "u", ".", "b", "e", "/", "d", "Q", "w", "4", "w", "9", "W", "g", "X", "c", "Q" >>

NOT_A_URL ==
    << "n", "o", "t", " ", "a", " ", "u", "r", "l" >>

(* what the user has typed into the URL field when Start is clicked *)
StartTexts == {SCENARIO_URL, NOT_A_URL}

(* before extract_youtube_video_id was called *)
NoCall == << "-" >>

NoExtractCall ==
    /\ url_edit = << >>
    /\ url_or_id = << >>
    /\ vid = NoCall

----------------------------------------------------------------------------
(* Summarizer and TTSManager: the values of their state *)

(* before summarize was called *)
NoReturn == [raised |-> FALSE, returned |-> FALSE, text |-> << >>]

(* summarize returned the str t / raised an exception whose str is t *)
Returned(t) == [raised |-> FALSE, returned |-> TRUE, text |-> t]
Raised(t) == [raised |-> TRUE, returned |-> FALSE, text |-> t]

(* client.chat.completions.create raises e / returns a response whose
   choices[0].message.content is None / is the str t *)
ResponseRaises(e) == [raises |-> TRUE, none |-> FALSE, content |-> e]
ResponseNone == [raises |-> FALSE, none |-> TRUE, content |-> << >>]
ResponseContent(t) == [raises |-> FALSE, none |-> FALSE, content |-> t]

NoSummarizerCall ==
    /\ openai = TRUE
    /\ api_key = TRUE
    /\ messages = << >>
    /\ response = ResponseNone
    /\ prompt_text = << >>
    /\ summary = NoReturn

TTS_OPTIONS ==
    << "System (screen reader/SAPI5)", "OpenAI TTS", "Google Cloud TTS", "Amazon Polly",
       "ElevenLabs" >>

SYSTEM_TTS_ENGINES == << "SAPI5 (Windows)", "Screen reader (Auto)" >>

NoSpeakCall ==
    /\ win32 = TRUE
    /\ AO2Auto = TRUE
    /\ tts_option = TTS_OPTIONS[1]
    /\ system_tts_backend = SYSTEM_TTS_ENGINES[1]
    /\ system_out = "SAPI5_DIRECT"
    /\ calls = << >>
    /\ ended = << >>

Init ==
    /\ pytchat \in BOOLEAN
    /\ ChatDownloader \in BOOLEAN
    /\ pytchat => ChatDownloader    \* run() never reads ChatDownloader when pytchat is set
    /\ pc = [r \in Readers |-> "none"]
    /\ stop = [r \in Readers |-> FALSE]
    /\ chat = [r \in Readers |-> "None"]
    /\ items = [r \in Readers |-> << >>]
    /\ exc = [r \in Readers |-> "-"]
    /\ sleepLeft = [r \in Readers |-> 0]
    /\ handles = [r \in Readers |-> 0]
    /\ connects = [r \in Readers |-> 0]
    /\ lateConnects = [r \in Readers |-> 0]
    /\ opened = [r \in Readers |-> 0]
    /\ sinceExit = [r \in Readers |-> -1]
    /\ nErrs = [r \in Readers |-> 0]
    /\ nRecon = [r \in Readers |-> 0]
    /\ lastErr = [r \in Readers |-> NoErr]
    /\ nStopped = [r \in Readers |-> 0]
    /\ queue = << >>
    /\ reader = 0
    /\ start_btn = TRUE
    /\ stop_btn = FALSE
    /\ pending_messages = << >>
    /\ elapsed = 0
    /\ chat_mode \in {CHAT_MODES[1], CHAT_MODES[2]}
    /\ summary_interval \in 1..MaxMins
    /\ gui = "idle"
    /\ waitLeft = 0
    /\ modal = FALSE
    /\ batches = << >>
    /\ quick_summary_count = DefaultQuickCount
    /\ spoken = << >>
    /\ summarized = << >>
    /\ nextId = 1
    /\ slots = MaxReaders
    /\ NoSummarizerCall
    /\ NoSpeakCall
    /\ NoExtractCall
    /\ narrated = {}

----------------------------------------------------------------------------
(* ChatReader.run, one action per step of the thread *)

(* line 990: which branch _on_error takes *)
ErrorPath(err) ==
    IF \/ Contains(KW_RECONNECTING, Lower(ErrText(err)))
       \/ Contains(KW_CONNECTION_LOST, Lower(ErrText(err)))
    THEN "status"
    ELSE "modal"

(* self.error_message.emit(err) by reader r *)
EmitError(r, err) ==
    /\ Room
    /\ queue' = Append(queue, Signal("error_message", r, err))
    /\ nErrs' = [nErrs EXCEPT ![r] = @ + 1]
    /\ nRecon' = [nRecon EXCEPT ![r] = @ + (IF ErrorPath(err) = "status" THEN 1 ELSE 0)]
    /\ lastErr' = [lastErr EXCEPT ![r] = err]

RECURSIVE Sum(_, _)
Sum(f, S) == IF S = {} THEN 0 ELSE LET x == CHOOSE y \in S : TRUE IN f[x] + Sum(f, S \ {x})

(* connect calls begun by all readers together, which MaxConnects bounds *)
TotalConnects == Sum(connects, Readers)

(* a connect call of reader r begins *)
BeginConnect(r) ==
    /\ connects' = [connects EXCEPT ![r] = @ + 1]
    /\ lateConnects' = [lateConnects EXCEPT ![r] = @ + (IF stop[r] THEN 1 ELSE 0)]

(* line 516: the condition of `while not self._stop.is_set()` *)
LoopCond(r) == ~stop[r]

(* line 521: the condition of `while chat.is_alive() and not self._stop.is_set()` *)
InnerCond(r, alive) == alive /\ ~stop[r]

(* lines 541-546, finally: if chat: chat.terminate() *)
Terminate(r) == IF chat[r] # "None" THEN handles[r] - 1 ELSE handles[r]

(* the poll interval in place of the backoff window *)
ShortBackoff == PollMs

(* line 549: the argument of time.sleep *)
BackoffTime == BackoffMs

(* the generic branch (line 577) for every exception *)
GenericError(e) == ErrDownloader(e)

(* lines 573-577: the error the fallback reports for exception e *)
FbError(e) ==
    IF Contains(KW_DISABLED, Lower(ExcText(e))) THEN ErrDisabled ELSE ErrDownloader(e)

(* the fallback taken whenever pytchat is missing *)
AssumeFallback == IF pytchat THEN "pytchat" ELSE "chat_downloader"

(* the fallback taken whenever it is there *)
PreferFallback ==
    IF ChatDownloader THEN "chat_downloader" ELSE IF pytchat THEN "pytchat" ELSE "none"

(* lines 515, 555, 579: the tests run() makes, once, on the module-level names *)
Backend ==
    IF pytchat THEN "pytchat" ELSE IF ChatDownloader THEN "chat_downloader" ELSE "none"

(* line 515 / 555 / 579: which branch run() takes; the fallback calls
   ChatDownloader().get_chat(url) at once (lines 557-558) *)
Run(r) ==
    /\ pc[r] = "run"
    /\ IF Backend = "pytchat"
       THEN /\ pc' = [pc EXCEPT ![r] = "loop"]
            /\ UNCHANGED << connects, lateConnects, emits, queue >>
       ELSE IF Backend = "chat_downloader"
       THEN /\ TotalConnects < MaxConnects
            /\ pc' = [pc EXCEPT ![r] = "fb_connecting"]
            /\ BeginConnect(r)
            /\ UNCHANGED << emits, queue >>
       ELSE /\ EmitError(r, ErrNoBackend)
            /\ pc' = [pc EXCEPT ![r] = "emit_stopped"]
            /\ UNCHANGED << connects, lateConnects >>
    /\ UNCHANGED << envvars, stop, chat, items, exc, sleepLeft, handles, opened, sinceExit,
                    nStopped, guivars, nextId >>

(* line 516: while not self._stop.is_set(), reached from the start of run() or when
   time.sleep(10) of line 549 returns; line 517: chat = None *)
LoopCheck(r) ==
    /\ pc[r] = "loop" \/ (pc[r] = "backoff_sleep" /\ sleepLeft[r] = 0)
    /\ IF LoopCond(r)
       THEN /\ TotalConnects < MaxConnects
            /\ chat' = [chat EXCEPT ![r] = "None"]
            /\ pc' = [pc EXCEPT ![r] = "create"]
       ELSE /\ pc' = [pc EXCEPT ![r] = "emit_stopped"]
            /\ UNCHANGED chat
    /\ UNCHANGED << envvars, stop, items, exc, sleepLeft, counts, sinceExit, emits,
                    nStopped, queue, guivars, nextId >>

(* line 519: pytchat.create(...) is called *)
CreateCall(r) ==
    /\ pc[r] = "create"
    /\ pc' = [pc EXCEPT ![r] = "creating"]
    /\ BeginConnect(r)
    /\ UNCHANGED << envvars, stop, chat, items, exc, sleepLeft, handles, opened, sinceExit,
                    emits, nStopped, queue, guivars, nextId >>

(* line 519: pytchat.create(...) returns a chat object or raises *)
CreateReturn(r) ==
    /\ pc[r] = "creating"
    /\ \/ /\ chat' = [chat EXCEPT ![r] = "handle"]
          /\ handles' = [handles EXCEPT ![r] = @ + 1]
          /\ opened' = [opened EXCEPT ![r] = @ + 1]
          /\ pc' = [pc EXCEPT ![r] = "alive_check"]
          /\ UNCHANGED exc
       \/ \E e \in Exceptions :
            /\ exc' = [exc EXCEPT ![r] = e]
            /\ pc' = [pc EXCEPT ![r] = "except"]
            /\ UNCHANGED << chat, handles, opened >>
    /\ UNCHANGED << envvars, stop, items, sleepLeft, connects, lateConnects, sinceExit,
                    emits, nStopped, queue, guivars, nextId >>

(* line 521: while chat.is_alive() and not self._stop.is_set(), reached after create()
   or when time.sleep(0.5) of line 532 returns; then chat.get() is called *)
AliveCheck(r) ==
    /\ pc[r] = "alive_check" \/ (pc[r] = "poll_sleep" /\ sleepLeft[r] = 0)
    /\ \E alive \in BOOLEAN :
         pc' = [pc EXCEPT ![r] = IF InnerCond(r, alive) THEN "getting" ELSE "after_inner"]
    /\ UNCHANGED << envvars, stop, chat, items, exc, sleepLeft, counts, sinceExit, emits,
                    nStopped, queue, guivars, nextId >>

(* line 522: chat.get() returns its items or raises; with no item the for loop is
   skipped and time.sleep(0.5) begins (line 532) *)
GetReturn(r) ==
    /\ pc[r] = "getting"
    /\ \/ \E n \in 0..MaxItems :
            /\ nextId + n - 1 <= MaxMsgs
            /\ items' = [items EXCEPT ![r] = [i \in 1..n |-> Msg(nextId + i - 1)]]
            /\ nextId' = nextId + n
            /\ IF n = 0
               THEN /\ pc' = [pc EXCEPT ![r] = "poll_sleep"]
                    /\ sleepLeft' = [sleepLeft EXCEPT ![r] = PollMs]
               ELSE /\ pc' = [pc EXCEPT ![r] = "emit_items"]
                    /\ UNCHANGED sleepLeft
            /\ UNCHANGED exc
       \/ \E e \in Exceptions :
            /\ exc' = [exc EXCEPT ![r] = e]
            /\ pc' = [pc EXCEPT ![r] = "except"]
            /\ UNCHANGED << items, nextId, sleepLeft >>
    /\ UNCHANGED << envvars, stop, chat, counts, sinceExit, emits, nStopped, queue,
                    guivars >>

(* lines 522-532: one iteration of the for loop; after the last item, time.sleep(0.5) *)
EmitItem(r) ==
    /\ pc[r] = "emit_items"
    /\ Room
    /\ queue' = Append(queue, Signal("message_received", r, Head(items[r])))
    /\ items' = [items EXCEPT ![r] = Tail(@)]
    /\ IF Len(items[r]) = 1
       THEN /\ pc' = [pc EXCEPT ![r] = "poll_sleep"]
            /\ sleepLeft' = [sleepLeft EXCEPT ![r] = PollMs]
       ELSE UNCHANGED << pc, sleepLeft >>
    /\ UNCHANGED << envvars, stop, chat, exc, counts, sinceExit, emits, nStopped, guivars,
                    nextId >>

(* lines 534-537, then the finally clause 541-546 *)
AfterInner(r) ==
    /\ pc[r] = "after_inner"
    /\ IF stop[r]
       THEN /\ pc' = [pc EXCEPT ![r] = "emit_stopped"]
            /\ UNCHANGED << queue, emits, sinceExit >>
       ELSE /\ EmitError(r, ErrLost)
            /\ sinceExit' = [sinceExit EXCEPT ![r] = 0]
            /\ pc' = [pc EXCEPT ![r] = "backoff_check"]
    /\ handles' = [handles EXCEPT ![r] = Terminate(r)]
    /\ UNCHANGED << envvars, stop, chat, items, exc, sleepLeft, connects, lateConnects,
                    opened, nStopped, guivars, nextId >>

(* lines 539-540, then the finally clause 541-546 *)
Except(r) ==
    /\ pc[r] = "except"
    /\ EmitError(r, ErrReader(exc[r]))
    /\ sinceExit' = [sinceExit EXCEPT ![r] = 0]
    /\ handles' = [handles EXCEPT ![r] = Terminate(r)]
    /\ exc' = [exc EXCEPT ![r] = "-"]
    /\ pc' = [pc EXCEPT ![r] = "backoff_check"]
    /\ UNCHANGED << envvars, stop, chat, items, sleepLeft, connects, lateConnects, opened,
                    nStopped, guivars, nextId >>

(* lines 548-549: if not self._stop.is_set(): time.sleep(10) *)
BackoffCheck(r) ==
    /\ pc[r] = "backoff_check"
    /\ IF ~stop[r]
       THEN /\ pc' = [pc EXCEPT ![r] = "backoff_sleep"]
            /\ sleepLeft' = [sleepLeft EXCEPT ![r] = BackoffTime]
       ELSE /\ pc' = [pc EXCEPT ![r] = "loop"]
            /\ UNCHANGED sleepLeft
    /\ UNCHANGED << envvars, stop, chat, items, exc, counts, sinceExit, emits, nStopped,
                    queue, guivars, nextId >>

(* lines 551, 571, 578, 581: self.stopped.emit(), and run() returns *)
EmitStopped(r) ==
    /\ pc[r] = "emit_stopped"
    /\ Room
    /\ queue' = Append(queue, Signal("stopped", r, NoArg))
    /\ nStopped' = [nStopped EXCEPT ![r] = @ + 1]
    /\ pc' = [pc EXCEPT ![r] = "done"]
    /\ UNCHANGED << envvars, stop, chat, items, exc, sleepLeft, counts, sinceExit, emits,
                    guivars, nextId >>

(* lines 557-558: ChatDownloader().get_chat(url) returns a chat or raises *)
FbConnectReturn(r) ==
    /\ pc[r] = "fb_connecting"
    /\ \/ /\ chat' = [chat EXCEPT ![r] = "handle"]
          /\ handles' = [handles EXCEPT ![r] = @ + 1]
          /\ opened' = [opened EXCEPT ![r] = @ + 1]
          /\ pc' = [pc EXCEPT ![r] = "fb_next"]
          /\ UNCHANGED exc
       \/ \E e \in Exceptions :
            /\ exc' = [exc EXCEPT ![r] = e]
            /\ pc' = [pc EXCEPT ![r] = "fb_except"]
            /\ UNCHANGED << chat, handles, opened >>
    /\ UNCHANGED << envvars, stop, items, sleepLeft, connects, lateConnects, sinceExit,
                    emits, nStopped, queue, guivars, nextId >>

(* line 559: for msg in downloader: the generator yields, ends or raises *)
FbNextReturn(r) ==
    /\ pc[r] = "fb_next"
    /\ \/ \E t \in RawTypes :
            /\ nextId <= MaxMsgs
            /\ items' = [items EXCEPT ![r] = << Raw(nextId, t) >>]
            /\ nextId' = nextId + 1
            /\ pc' = [pc EXCEPT ![r] = "fb_item"]
            /\ UNCHANGED exc
       \/ /\ pc' = [pc EXCEPT ![r] = "emit_stopped"]
          /\ UNCHANGED << items, nextId, exc >>
       \/ \E e \in Exceptions :
            /\ exc' = [exc EXCEPT ![r] = e]
            /\ pc' = [pc EXCEPT ![r] = "fb_except"]
            /\ UNCHANGED << items, nextId >>
    /\ UNCHANGED << envvars, stop, chat, sleepLeft, counts, sinceExit, emits, nStopped,
                    queue, guivars >>

(* lines 560-570: the body of the for loop *)
FbItem(r) ==
    /\ pc[r] = "fb_item"
    /\ IF stop[r]
       THEN /\ pc' = [pc EXCEPT ![r] = "emit_stopped"]
            /\ UNCHANGED queue
       ELSE /\ IF Head(items[r]).message_type = "text_message"
               THEN /\ Room
                    /\ queue' = Append(queue,
                           Signal("message_received", r, Msg(Head(items[r]).id)))
               ELSE UNCHANGED queue
            /\ pc' = [pc EXCEPT ![r] = "fb_next"]
    /\ items' = [items EXCEPT ![r] = << >>]
    /\ UNCHANGED << envvars, stop, chat, exc, sleepLeft, counts, sinceExit, emits,
                    nStopped, guivars, nextId >>

(* the handler reports the exception and run() returns, line 578 left out *)
ReturnAfterError(r) ==
    /\ pc[r] = "fb_except"
    /\ EmitError(r, FbError(exc[r]))
    /\ exc' = [exc EXCEPT ![r] = "-"]
    /\ pc' = [pc EXCEPT ![r] = "done"]
    /\ UNCHANGED << envvars, stop, chat, items, sleepLeft, counts, sinceExit, nStopped,
                    guivars, nextId >>

(* lines 572-577: except Exception as e; line 578 follows as EmitStopped *)
FbExcept(r) ==
    /\ pc[r] = "fb_except"
    /\ EmitError(r, FbError(exc[r]))
    /\ exc' = [exc EXCEPT ![r] = "-"]
    /\ pc' = [pc EXCEPT ![r] = "emit_stopped"]
    /\ UNCHANGED << envvars, stop, chat, items, sleepLeft, counts, sinceExit, nStopped,
                    guivars, nextId >>

ReaderStep(r) ==
    \/ Run(r) \/ LoopCheck(r) \/ CreateCall(r) \/ CreateReturn(r) \/ AliveCheck(r)
    \/ GetReturn(r) \/ EmitItem(r) \/ AfterInner(r) \/ Except(r)
    \/ BackoffCheck(r) \/ EmitStopped(r)
    \/ FbConnectReturn(r) \/ FbNextReturn(r) \/ FbItem(r) \/ FbExcept(r)

----------------------------------------------------------------------------
(* MainWindow: handlers on the GUI thread *)

QUICK_EMPTY_TEXT ==
    << "N", "o", " ", "r", "e", "c", "e", "n", "t", " ", "m", "e", "s", "s", "a", "g", "e",
       "s", " ", "t", "o", " ", "s", "u", "m", "m", "a", "r", "i", "z", "e", "." >>

QUIET_TEXT ==
    << "I", "t", "'", "s", " ", "b", "e", "e", "n", " ", "q", "u", "i", "e", "t", ".", " ",
       "N", "o", " ", "n", "e", "w", " ", "m", "e", "s", "s", "a", "g", "e", "s", " ", "t",
       "o", " ", "s", "u", "m", "m", "a", "r", "i", "z", "e", "." >>

LINE_SEP == << ":", " " >>

(* a text handed to tts.speak *)
Text(t) == [kind |-> "text", text |-> t, of |-> << >>]

(* the text summarize returns for the non-empty list `msgs` (lines 452-476) *)
SummaryOf(msgs) == [kind |-> "summary", text |-> << >>, of |-> msgs]

(* lines 447-476: Summarizer.summarize *)
Summarize(msgs) ==
    IF msgs = << >> THEN Text(QUIET_TEXT) ELSE SummaryOf(msgs)

Idle == gui = "idle"

(* the user can reach the controls of the window: no handler is blocking the GUI thread
   and no modal dialog is open *)
UserCan == Idle /\ ~modal

(* a slot that calls neither tts.speak nor summarizer.summarize *)
Quiet ==
    /\ spoken' = << >>
    /\ summarized' = << >>

(* A ChatReader whose run() has returned and whose signals have all been delivered
   does nothing any more; MaxReaders bounds the readers that are not in that state, and
   a new ChatReader (line 939, fields as __init__ lines 508-511 sets them) takes the
   place of one that is. *)
Free(r) ==
    /\ r <= slots
    /\ pc[r] \in {"none", "done"}
    /\ \A i \in 1..Len(queue) : queue[i].rd # r

(* start() called again on the reader that was there, its _stop event as it was *)
RestartedReader(r) ==
    /\ pc' = [pc EXCEPT ![r] = "run"]
    /\ chat' = [chat EXCEPT ![r] = "None"]
    /\ handles' = [handles EXCEPT ![r] = 0]
    /\ connects' = [connects EXCEPT ![r] = 0]
    /\ lateConnects' = [lateConnects EXCEPT ![r] = 0]
    /\ sinceExit' = [sinceExit EXCEPT ![r] = -1]
    /\ opened' = [opened EXCEPT ![r] = 0]
    /\ nErrs' = [nErrs EXCEPT ![r] = 0]
    /\ nRecon' = [nRecon EXCEPT ![r] = 0]
    /\ lastErr' = [lastErr EXCEPT ![r] = NoErr]
    /\ nStopped' = [nStopped EXCEPT ![r] = 0]
    /\ UNCHANGED << stop, items, exc, sleepLeft >>

(* lines 939-943: ChatReader(vid), whose __init__ (lines 508-511) makes a new _stop
   event, and start(), which makes its thread call run() *)
NewReader(r) ==
    /\ pc' = [pc EXCEPT ![r] = "run"]
    /\ stop' = [stop EXCEPT ![r] = FALSE]
    /\ chat' = [chat EXCEPT ![r] = "None"]
    /\ handles' = [handles EXCEPT ![r] = 0]
    /\ connects' = [connects EXCEPT ![r] = 0]
    /\ lateConnects' = [lateConnects EXCEPT ![r] = 0]
    /\ sinceExit' = [sinceExit EXCEPT ![r] = -1]
    /\ opened' = [opened EXCEPT ![r] = 0]
    /\ nErrs' = [nErrs EXCEPT ![r] = 0]
    /\ nRecon' = [nRecon EXCEPT ![r] = 0]
    /\ lastErr' = [lastErr EXCEPT ![r] = NoErr]
    /\ nStopped' = [nStopped EXCEPT ![r] = 0]
    /\ UNCHANGED << items, exc, sleepLeft >>

(* _on_start with the buffer and the baseline reset before the input is looked at *)
ClearingStart ==
    /\ UserCan
    /\ start_btn
    /\ \E text \in StartTexts :
         IF extract_youtube_video_id(Strip(text)) = NoId
         THEN /\ modal' = TRUE
              /\ pending_messages' = << >>
              /\ elapsed' = 0
              /\ UNCHANGED << rvars, reader, start_btn, stop_btn >>
         ELSE \E r \in Readers :
              /\ Free(r)
              /\ UNCHANGED modal
              /\ NewReader(r)
              /\ reader' = r
              /\ start_btn' = FALSE
              /\ stop_btn' = TRUE
              /\ pending_messages' = << >>
              /\ elapsed' = 0
    /\ Quiet
    /\ UNCHANGED << envvars, queue, chat_mode, summary_interval, quick_summary_count, gui,
                    waitLeft, batches, nextId >>

(* lines 931-947.  text is url_edit.text() *)
OnStart ==
    /\ UserCan
    /\ start_btn
    /\ \E text \in StartTexts :
         IF extract_youtube_video_id(Strip(text)) = NoId
         THEN /\ modal' = TRUE
              /\ UNCHANGED << rvars, reader, start_btn, stop_btn, pending_messages,
                              elapsed >>
         ELSE \E r \in Readers :
              /\ Free(r)
              /\ UNCHANGED modal
              /\ NewReader(r)
              /\ reader' = r
              /\ start_btn' = FALSE
              /\ stop_btn' = TRUE
              /\ pending_messages' = << >>
              /\ elapsed' = 0
    /\ Quiet
    /\ UNCHANGED << envvars, queue, chat_mode, summary_interval, quick_summary_count, gui,
                    waitLeft, batches, nextId >>

(* lines 949-953: reader.stop(), then reader.wait(2000) blocks the GUI thread *)
OnStop ==
    /\ UserCan
    /\ stop_btn
    /\ IF reader # 0
       THEN /\ stop' = [stop EXCEPT ![reader] = TRUE]
            /\ gui' = "stop_wait"
            /\ waitLeft' = JoinWaitMs
            /\ UNCHANGED << start_btn, stop_btn >>
       ELSE /\ start_btn' = TRUE
            /\ stop_btn' = FALSE
            /\ UNCHANGED << stop, gui, waitLeft >>
    /\ Quiet
    /\ UNCHANGED << envvars, pc, chat, items, exc, sleepLeft, counts, sinceExit, emits,
                    nStopped, queue, reader, pending_messages, elapsed, chat_mode,
                    summary_interval, quick_summary_count, modal, batches, nextId >>

(* lines 953-957: wait(2000) returns when run() has returned or after 2 s *)
OnStopReturn ==
    /\ gui = "stop_wait"
    /\ pc[reader] = "done" \/ waitLeft = 0
    /\ reader' = 0
    /\ start_btn' = TRUE
    /\ stop_btn' = FALSE
    /\ gui' = "idle"
    /\ waitLeft' = 0
    /\ UNCHANGED << envvars, rvars, queue, pending_messages, elapsed, chat_mode,
                    summary_interval, quick_summary_count, modal, batches, outs, nextId >>

(* lines 959-962 *)
OnStopped ==
    /\ start_btn' = TRUE
    /\ stop_btn' = FALSE
    /\ Quiet
    /\ UNCHANGED << reader, pending_messages, elapsed, chat_mode, summary_interval,
                    quick_summary_count, gui, waitLeft, modal, batches >>

(* an assignment in place of the append *)
Replaced(buf, msg) == << msg >>

(* the new message put in front *)
Prepended(buf, msg) == << msg >> \o buf

(* line 967: self.pending_messages.append(msg) *)
Appended(buf, msg) == Append(buf, msg)

(* the text without its author *)
TextOnly(msg) == msg.text

(* line 981: line = f"{author}: {text}" *)
Line(msg) == msg.author \o LINE_SEP \o msg.text

(* every message narrated, whatever the mode *)
AlwaysSpoken(msg) == << Text(Line(msg)) >>

(* lines 969-985: the tts.speak calls of _on_message *)
MessageSpoken(msg) ==
    IF chat_mode = CHAT_MODES[1] THEN << Text(Line(msg)) >> ELSE << >>

(* lines 964-985 *)
OnMessage(msg) ==
    /\ pending_messages' = Appended(pending_messages, msg)
    /\ spoken' = MessageSpoken(msg)
    /\ summarized' = << >>
    /\ UNCHANGED << reader, start_btn, stop_btn, elapsed, chat_mode, summary_interval,
                    quick_summary_count, gui, waitLeft, modal, batches >>

(* lines 987-993 *)
OnError(err) ==
    /\ modal' = (modal \/ ErrorPath(err) = "modal")
    /\ Quiet
    /\ UNCHANGED << reader, start_btn, stop_btn, pending_messages, elapsed, chat_mode,
                    summary_interval, quick_summary_count, gui, waitLeft, batches >>

(* The GUI event loop takes the oldest queued signal and runs its slot *)
RunSlot ==
    /\ Idle
    /\ queue # << >>
    /\ queue' = Tail(queue)
    /\ LET ev == Head(queue) IN
         CASE ev.sig = "message_received" -> OnMessage(ev.arg)
           [] ev.sig = "error_message" -> OnError(ev.arg)
           [] OTHER -> OnStopped
    /\ UNCHANGED << rvars, nextId >>

Deliver == RunSlot /\ UNCHANGED envvars

(* line 1043: msgs = self.pending_messages.copy(), handed to summarize (line 1046) *)
FlushBatch(buf) == buf

(* a flush that leaves the buffer as it is *)
KeepBuffer(buf) == buf

(* line 1044: self.pending_messages.clear() *)
FlushBuffer(buf) == << >>

(* the interval taken as that many timer periods *)
DueInPeriods(now) == now >= Max(1, summary_interval) * TimerMs

(* lines 1040-1041: (time.time() - self.last_summary_ts) >= mins * 60 *)
Due(now) == now >= Max(1, summary_interval) * MsPerMinute

(* the test without `and self.pending_messages` *)
FlushWhenDue(now) ==
    /\ chat_mode = CHAT_MODES[2]
    /\ Due(now)

(* lines 1038-1041: the conditions under which _maybe_do_summary flushes *)
ShouldFlush(now) ==
    /\ chat_mode = CHAT_MODES[2]
    /\ Due(now)
    /\ pending_messages # << >>

(* lines 1037-1048, run by summary_timer every 5000 ms (lines 723-725): one timer
   period passes and the timeout slot runs *)
MaybeDoSummary ==
    /\ Idle
    /\ Due(Min(ElapsedCap, elapsed + TimerMs))
    /\ LET now == Min(ElapsedCap, elapsed + TimerMs) IN
       IF ShouldFlush(now)
       THEN /\ batches' = Append(batches, FlushBatch(pending_messages))
            /\ pending_messages' = FlushBuffer(pending_messages)
            /\ elapsed' = 0
            /\ summarized' = << FlushBatch(pending_messages) >>
            /\ spoken' = << Summarize(FlushBatch(pending_messages)) >>
       ELSE /\ elapsed' = now
            /\ Quiet
            /\ UNCHANGED << pending_messages, batches >>
    /\ UNCHANGED << envvars, rvars, queue, reader, start_btn, stop_btn, chat_mode,
                    summary_interval, quick_summary_count, gui, waitLeft, modal, nextId >>

(* the first `count` messages in place of the last *)
Prefix(buf, count) == SubSeq(buf, 1, Min(count, Len(buf)))

(* line 1007: self.pending_messages[-count:], as Python slices: a negative start counts
   from the end and is clamped to the start of the list, and -0 is 0 *)
Suffix(buf, count) ==
    LET start == IF count = 0 THEN 0 ELSE Max(Len(buf) - count, 0)
    IN  SubSeq(buf, start + 1, Len(buf))

(* a quick summary that drains the buffer and resets the baseline as a flush does *)
DrainingQuickSummary ==
    /\ UserCan
    /\ IF pending_messages = << >>
       THEN /\ spoken' = << Text(QUICK_EMPTY_TEXT) >>
            /\ summarized' = << >>
            /\ UNCHANGED << pending_messages, elapsed >>
       ELSE LET recent == Suffix(pending_messages, quick_summary_count) IN
            /\ summarized' = << recent >>
            /\ spoken' = << Summarize(recent) >>
            /\ pending_messages' = << >>
            /\ elapsed' = 0
    /\ UNCHANGED << envvars, rvars, queue, reader, start_btn, stop_btn, chat_mode,
                    summary_interval, quick_summary_count, gui, waitLeft, modal, batches,
                    nextId >>

(* a quick summary that hands the empty buffer to the Summarizer *)
UnguardedQuickSummary ==
    /\ UserCan
    /\ LET recent == Suffix(pending_messages, quick_summary_count) IN
         /\ summarized' = << recent >>
         /\ spoken' = << Summarize(recent) >>
    /\ UNCHANGED << envvars, rvars, queue, reader, start_btn, stop_btn, pending_messages,
                    elapsed, chat_mode, summary_interval, quick_summary_count, gui,
                    waitLeft, modal, batches, nextId >>

(* lines 995-1013 *)
OnQuickSummary ==
    /\ UserCan
    /\ IF pending_messages = << >>
       THEN /\ spoken' = << Text(QUICK_EMPTY_TEXT) >>
            /\ summarized' = << >>
       ELSE LET recent == Suffix(pending_messages, quick_summary_count) IN
            /\ summarized' = << recent >>
            /\ spoken' = << Summarize(recent) >>
    /\ UNCHANGED << envvars, rvars, queue, reader, start_btn, stop_btn, pending_messages,
                    elapsed, chat_mode, summary_interval, quick_summary_count, gui,
                    waitLeft, modal, batches, nextId >>

(* the user closes the warning dialogs that are open *)
Dismiss ==
    /\ Idle
    /\ modal
    /\ modal' = FALSE
    /\ UNCHANGED << envvars, rvars, queue, reader, start_btn, stop_btn, pending_messages,
                    elapsed, chat_mode, summary_interval, quick_summary_count, gui,
                    waitLeft, batches, outs, nextId >>

(* the user picks a chat mode (lines 674-677); the slot is _update_cfg (line 784) *)
SetChatMode ==
    /\ UserCan
    /\ \E m \in {CHAT_MODES[1], CHAT_MODES[2]} :
         /\ m # chat_mode
         /\ chat_mode' = m
    /\ Quiet
    /\ UNCHANGED << envvars, rvars, queue, reader, start_btn, stop_btn, pending_messages,
                    elapsed, summary_interval, quick_summary_count, gui, waitLeft, modal,
                    batches, nextId >>

----------------------------------------------------------------------------
(* Time *)

Sleeping(r) == pc[r] \in {"poll_sleep", "backoff_sleep"}

(* the thread of r has a step of computation it can take now *)
Runnable(r) ==
    \/ pc[r] \in {"create", "alive_check", "backoff_check"}
    \/ pc[r] = "run" /\ (\/ Backend = "pytchat"
                        \/ (Backend = "chat_downloader" /\ TotalConnects < MaxConnects)
                        \/ (Backend = "none" /\ Room))
    \/ pc[r] = "loop" /\ (stop[r] \/ TotalConnects < MaxConnects)
    \/ pc[r] \in {"emit_items", "except", "emit_stopped", "fb_except"} /\ Room
    \/ pc[r] = "after_inner" /\ (stop[r] \/ Room)
    \/ pc[r] = "fb_item"
         /\ (stop[r] \/ Head(items[r]).message_type # "text_message" \/ Room)
    \/ pc[r] = "poll_sleep" /\ sleepLeft[r] = 0
    \/ pc[r] = "backoff_sleep" /\ sleepLeft[r] = 0 /\ (stop[r] \/ TotalConnects < MaxConnects)

WaitOver == gui = "stop_wait" /\ (pc[reader] = "done" \/ waitLeft = 0)

Deadlines ==
    {sleepLeft[r] : r \in {q \in Readers : Sleeping(q)}}
        \cup (IF gui = "stop_wait" THEN {waitLeft} ELSE {})

SetMin(S) == CHOOSE x \in S : \A y \in S : x <= y

(* The thread clock advances to the next deadline.  Steps of computation and the
   delivery of a queued signal to an idle GUI thread take no time. *)
Tick ==
    /\ \A r \in Readers : ~Runnable(r)
    /\ ~WaitOver
    /\ ~(Idle /\ queue # << >>)
    /\ LET d == IF Deadlines = {} THEN BackoffMs ELSE SetMin(Deadlines) IN
         /\ sleepLeft' = [r \in Readers |->
                             IF Sleeping(r) THEN sleepLeft[r] - d ELSE sleepLeft[r]]
         /\ waitLeft' = IF gui = "stop_wait" THEN waitLeft - d ELSE waitLeft
         /\ sinceExit' = [r \in Readers |->
                             IF sinceExit[r] >= 0 THEN Min(BackoffMs, sinceExit[r] + d)
                             ELSE sinceExit[r]]
    /\ UNCHANGED << envvars, pc, stop, chat, items, exc, counts, emits, nStopped, queue,
                    reader, start_btn, stop_btn, pending_messages, elapsed, chat_mode,
                    summary_interval, quick_summary_count, gui, modal, batches, outs,
                    nextId >>

(* the values time.time() - last_summary_ts has when the timer fires *)
Checks == {k * TimerMs : k \in 0..(ElapsedCap \div TimerMs)}

(* The timer periods at whose end _maybe_do_summary does nothing, whatever the mode and
   the buffer are, because the interval has not passed (line 1041): they pass in one
   step, up to the last timeout before the interval is over. *)
GuiClock ==
    /\ Idle
    /\ ~Due(Min(ElapsedCap, elapsed + TimerMs))
    /\ elapsed' = CHOOSE e \in Checks : e > elapsed /\ ~Due(e) /\ Due(e + TimerMs)
    /\ Quiet
    /\ UNCHANGED << envvars, rvars, queue, reader, start_btn, stop_btn,
                    pending_messages, chat_mode, summary_interval, quick_summary_count,
                    gui, waitLeft, modal, batches, nextId >>

----------------------------------------------------------------------------

Next ==
    \/ \E r \in Readers : ReaderStep(r)
    \/ OnStart
    \/ OnStop
    \/ OnStopReturn
    \/ Deliver
    \/ MaybeDoSummary
    \/ OnQuickSummary
    \/ SetChatMode
    \/ Dismiss
    \/ Tick
    \/ GuiClock

Spec == Init /\ [][Next]_vars

----------------------------------------------------------------------------
(* The quick summary on buffers longer than the count: the window with some session's
   messages in the buffer and some count set in the spin box (lines 742-746) *)

MaxBuf == 7
MaxFirst == 2

QuickCounts == {MinQuickCount, MinQuickCount + 1, DefaultQuickCount, MaxQuickCount}

InitSuffix ==
    /\ pytchat \in BOOLEAN
    /\ ChatDownloader \in BOOLEAN
    /\ pytchat => ChatDownloader
    /\ pc = [r \in Readers |-> "none"]
    /\ stop = [r \in Readers |-> FALSE]
    /\ chat = [r \in Readers |-> "None"]
    /\ items = [r \in Readers |-> << >>]
    /\ exc = [r \in Readers |-> "-"]
    /\ sleepLeft = [r \in Readers |-> 0]
    /\ handles = [r \in Readers |-> 0]
    /\ connects = [r \in Readers |-> 0]
    /\ lateConnects = [r \in Readers |-> 0]
    /\ opened = [r \in Readers |-> 0]
    /\ sinceExit = [r \in Readers |-> -1]
    /\ nErrs = [r \in Readers |-> 0]
    /\ nRecon = [r \in Readers |-> 0]
    /\ lastErr = [r \in Readers |-> NoErr]
    /\ nStopped = [r \in Readers |-> 0]
    /\ queue = << >>
    /\ reader = 0
    /\ start_btn = TRUE
    /\ stop_btn = FALSE
    /\ \E first \in 1..MaxFirst, n \in 0..MaxBuf :
         /\ pending_messages = [i \in 1..n |-> Msg(first + i - 1)]
         /\ nextId = first + n
    /\ elapsed = 0
    /\ chat_mode \in {CHAT_MODES[1], CHAT_MODES[2]}
    /\ summary_interval \in 1..MaxMins
    /\ quick_summary_count \in QuickCounts
    /\ gui = "idle"
    /\ waitLeft = 0
    /\ modal = FALSE
    /\ batches = << >>
    /\ spoken = << >>
    /\ summarized = << >>
    /\ slots = MaxReaders
    /\ NoSummarizerCall
    /\ NoSpeakCall
    /\ NoExtractCall
    /\ narrated = {}

SpecSuffix == InitSuffix /\ [][OnQuickSummary]_vars

----------------------------------------------------------------------------
(* Summarizer.summarize as a function of its argument, of the installed library, of the
   configured key and of what the provider does (lines 447-500) *)

mainvars == << pytchat, ChatDownloader, slots, narrated, rvars, queue, guivars, nextId >>

(* the window as MainWindow.__init__ leaves it, both chat libraries installed *)
MainWindowInit ==
    /\ pytchat = TRUE
    /\ ChatDownloader = TRUE
    /\ pc = [r \in Readers |-> "none"]
    /\ stop = [r \in Readers |-> FALSE]
    /\ chat = [r \in Readers |-> "None"]
    /\ items = [r \in Readers |-> << >>]
    /\ exc = [r \in Readers |-> "-"]
    /\ sleepLeft = [r \in Readers |-> 0]
    /\ handles = [r \in Readers |-> 0]
    /\ connects = [r \in Readers |-> 0]
    /\ lateConnects = [r \in Readers |-> 0]
    /\ opened = [r \in Readers |-> 0]
    /\ sinceExit = [r \in Readers |-> -1]
    /\ nErrs = [r \in Readers |-> 0]
    /\ nRecon = [r \in Readers |-> 0]
    /\ lastErr = [r \in Readers |-> NoErr]
    /\ nStopped = [r \in Readers |-> 0]
    /\ queue = << >>
    /\ reader = 0
    /\ start_btn = TRUE
    /\ stop_btn = FALSE
    /\ pending_messages = << >>
    /\ elapsed = 0
    /\ chat_mode = CHAT_MODES[1]
    /\ summary_interval = 1
    /\ gui = "idle"
    /\ waitLeft = 0
    /\ modal = FALSE
    /\ batches = << >>
    /\ quick_summary_count = DefaultQuickCount
    /\ spoken = << >>
    /\ summarized = << >>
    /\ nextId = 1
    /\ narrated = {}

BASE_PROMPT ==
    << "Y", "o", "u", " ", "a", "r", "e", " ", "a", " ", "w", "i", "t", "t", "y", " ",
       "a", "n", "d", " ", "h", "u", "m", "o", "r", "o", "u", "s", " ", "a", "s", "s",
       "i", "s", "t", "a", "n", "t", " ", "s", "u", "m", "m", "a", "r", "i", "z", "i",
       "n", "g", " ", "a", " ", "Y", "o", "u", "T", "u", "b", "e", " ", "l", "i", "v",
       "e", " ", "s", "t", "r", "e", "a", "m", " ", "c", "h", "a", "t", ".", " ", "Y",
       "o", "u", "r", " ", "s", "u", "m", "m", "a", "r", "y", " ", "w", "i", "l", "l",
       " ", "b", "e", " ", "r", "e", "a", "d", " ", "o", "u", "t", " ", "l", "o", "u",
       "d", " ", "b", "y", " ", "a", " ", "t", "e", "x", "t", "-", "t", "o", "-", "s",
       "p", "e", "e", "c", "h", " ", "e", "n", "g", "i", "n", "e", ",", " ", "s", "o",
       " ", "a", "d", "o", "p", "t", " ", "a", " ", "c", "o", "n", "v", "e", "r", "s",
       "a", "t", "i", "o", "n", "a", "l", " ", "a", "n", "d", " ", "s", "l", "i", "g",
       "h", "t", "l", "y", " ", "c", "o", "m", "e", "d", "i", "c", " ", "t", "o", "n",
       "e", ".", " ", "B", "e", " ", "c", "o", "n", "c", "i", "s", "e", " ", "a", "n",
       "d", " ", "k", "e", "e", "p", " ", "y", "o", "u", "r", " ", "s", "u", "m", "m",
       "a", "r", "y", " ", "t", "o", " ", "a", " ", "f", "e", "w", " ", "s", "e", "n",
       "t", "e", "n", "c", "e", "s", "." >>

QUIET_TASK ==
    << "T", "h", "e", " ", "c", "h", "a", "t", " ", "i", "s", " ", "v", "e", "r", "y",
       " ", "q", "u", "i", "e", "t", ".", " ", "M", "a", "k", "e", " ", "a", " ", "b",
       "r", "i", "e", "f", ",", " ", "f", "u", "n", "n", "y", " ", "c", "o", "m", "m",
       "e", "n", "t", " ", "a", "b", "o", "u", "t", " ", "t", "h", "e", " ", "s", "i",
       "l", "e", "n", "c", "e", ",", " ", "a", "n", "d", " ", "t", "h", "e", "n", " ",
       "j", "u", "s", "t", " ", "r", "e", "a", "d", " ", "o", "u", "t", " ", "t", "h",
       "e", " ", "f", "e", "w", " ", "m", "e", "s", "s", "a", "g", "e", "s", " ", "t",
       "h", "a", "t", " ", "h", "a", "v", "e", " ", "a", "p", "p", "e", "a", "r", "e",
       "d", "." >>

ACTIVE_TASK ==
    << "T", "h", "e", " ", "c", "h", "a", "t", " ", "i", "s", " ", "a", "c", "t", "i",
       "v", "e", ".", " ", "D", "o", " ", "n", "o", "t", " ", "l", "i", "s", "t", " ",
       "e", "v", "e", "r", "y", " ", "m", "e", "s", "s", "a", "g", "e", ".", " ", "I",
       "n", "s", "t", "e", "a", "d", ",", " ", "c", "a", "p", "t", "u", "r", "e", " ",
       "t", "h", "e", " ", "m", "a", "i", "n", " ", "v", "i", "b", "e", ".", " ", "I",
       "d", "e", "n", "t", "i", "f", "y", " ", "t", "h", "e", " ", "k", "e", "y", " ",
       "t", "o", "p", "i", "c", "s", " ", "b", "e", "i", "n", "g", " ", "d", "i", "s",
       "c", "u", "s", "s", "e", "d", ",", " ", "m", "e", "n", "t", "i", "o", "n", " ",
       "a", "n", "y", " ", "h", "i", "g", "h", "l", "i", "g", "h", "t", "s", " ", "o",
       "r", " ", "f", "u", "n", "n", "y", " ", "m", "o", "m", "e", "n", "t", "s", ",",
       " ", "a", "n", "d", " ", "g", "i", "v", "e", " ", "a", " ", "g", "e", "n", "e",
       "r", "a", "l", " ", "s", "e", "n", "s", "e", " ", "o", "f", " ", "t", "h", "e",
       " ", "c", "o", "n", "v", "e", "r", "s", "a", "t", "i", "o", "n", "." >>


CHAT_HEADER ==
    << "\n", "\n", "H", "e", "r", "e", " ", "a", "r", "e", " ", "t", "h", "e", " ", "r",
       "e", "c", "e", "n", "t", " ", "m", "e", "s", "s", "a", "g", "e", "s", ":",
       "\n" >>

NO_LIBRARY_TEXT ==
    << "(", "O", "p", "e", "n", "A", "I", " ", "l", "i", "b", "r", "a", "r", "y", " ",
       "n", "o", "t", " ", "i", "n", "s", "t", "a", "l", "l", "e", "d", ".", " ", "P",
       "l", "e", "a", "s", "e", " ", "r", "u", "n", ":", " ", "p", "i", "p", " ", "i",
       "n", "s", "t", "a", "l", "l", " ", "o", "p", "e", "n", "a", "i", ")" >>

NO_KEY_TEXT ==
    << "(", "O", "p", "e", "n", "A", "I", " ", "A", "P", "I", " ", "k", "e", "y", " ",
       "i", "s", " ", "n", "o", "t", " ", "s", "e", "t", " ", "i", "n", " ", "O", "p",
       "t", "i", "o", "n", "s", ")" >>

EMPTY_SUMMARY_TEXT ==
    << "(", "O", "p", "e", "n", "A", "I", " ", "r", "e", "t", "u", "r", "n", "e", "d",
       " ", "a", "n", " ", "e", "m", "p", "t", "y", " ", "s", "u", "m", "m", "a", "r",
       "y", ")" >>

API_ERROR_PREFIX ==
    << "(", "O", "p", "e", "n", "A", "I", " ", "A", "P", "I", " ", "e", "r", "r", "o",
       "r", ":", " " >>


(* line 461: batches shorter than this get the "quiet" task *)
ACTIVE_FROM == 5

(* "\n".join(lines) *)
RECURSIVE JoinLines(_)
JoinLines(lines) ==
    IF lines = << >> THEN << >>
    ELSE IF Len(lines) = 1 THEN lines[1]
    ELSE lines[1] \o << "\n" >> \o JoinLines(Tail(lines))

(* line 452: f"{m.get('author', 'User')}: {m.get('text', '')}" *)
ChatLine(m) == m.author \o << ":", " " >> \o m.text

FormattedChat(msgs) == JoinLines([i \in 1..Len(msgs) |-> ChatLine(msgs[i])])

(* the "quiet" task up to and including five messages *)
TaskPromptUpTo(msgs) == IF Len(msgs) <= ACTIVE_FROM THEN QUIET_TASK ELSE ACTIVE_TASK

(* lines 461-471 *)
TaskPrompt(msgs) == IF Len(msgs) < ACTIVE_FROM THEN QUIET_TASK ELSE ACTIVE_TASK

(* line 473 *)
FullPrompt(msgs) ==
    BASE_PROMPT \o << "\n", "\n" >> \o TaskPrompt(msgs) \o CHAT_HEADER \o FormattedChat(msgs)

(* the provider's exception leaves _summarize_with_openai *)
PropagatingOpenai(prompt) ==
    IF ~openai THEN Returned(NO_LIBRARY_TEXT)
    ELSE IF ~api_key THEN Returned(NO_KEY_TEXT)
    ELSE IF response.raises THEN Raised(response.content)
    ELSE IF response.none \/ response.content = << >> THEN Returned(EMPTY_SUMMARY_TEXT)
    ELSE Returned(Strip(response.content))

(* lines 478-500: _summarize_with_openai(prompt) *)
SummarizeWithOpenai(prompt) ==
    IF ~openai THEN Returned(NO_LIBRARY_TEXT)
    ELSE IF ~api_key THEN Returned(NO_KEY_TEXT)
    ELSE IF response.raises
         THEN Returned(API_ERROR_PREFIX \o response.content \o << ")" >>)
    ELSE IF response.none \/ response.content = << >> THEN Returned(EMPTY_SUMMARY_TEXT)
    ELSE Returned(Strip(response.content))

(* lines 447-476: one call summarize(messages) *)
SummarizeCall ==
    /\ summary = NoReturn
    /\ IF messages = << >>
       THEN /\ prompt_text' = << >>
            /\ summary' = Returned(QUIET_TEXT)
       ELSE /\ prompt_text' = << FullPrompt(messages) >>
            /\ summary' = SummarizeWithOpenai(FullPrompt(messages))
    /\ UNCHANGED << mainvars, openai, api_key, messages, response, ttsvars, urlvars >>

(* what the provider does: it raises, or the content of its answer is None, "", " ",
   "ok" or " ok\n" *)
Responses ==
    {ResponseRaises(EXC_TIMEOUT), ResponseNone, ResponseContent(<< >>),
     ResponseContent(<< " " >>), ResponseContent(<< "o", "k" >>),
     ResponseContent(<< " ", "o", "k", "\n" >>)}

(* the batches: up to MaxBuf consecutive chat items, oldest or newest first *)
Batches ==
    {[i \in 1..n |-> Msg(first + i - 1)] : first \in 1..MaxFirst, n \in 0..MaxBuf}
    \cup {[i \in 1..n |-> Msg(first + n - i)] : first \in 1..MaxFirst, n \in 0..MaxBuf}

InitSummarize ==
    /\ MainWindowInit
    /\ slots = MaxReaders
    /\ NoSpeakCall
    /\ NoExtractCall
    /\ openai \in BOOLEAN
    /\ api_key \in BOOLEAN
    /\ messages \in Batches
    /\ response \in Responses
    /\ prompt_text = << >>
    /\ summary = NoReturn

SpecSummarize == InitSummarize /\ [][SummarizeCall]_vars

----------------------------------------------------------------------------
(* TTSManager (lines 240-350): its construction, speak() and the threads of the direct
   SAPI5 path.  The window makes a new TTSManager whenever the speech configuration
   changes (lines 799, 804, 923), so system_out always belongs to the configuration
   that speak() reads. *)

MaxSpeaks == 3

(* backend.startswith("SAPI5") *)
IsSapi5(backend) == backend = SYSTEM_TTS_ENGINES[1]

(* lines 246-269: _init_system_tts; ok: the accessible_output2 constructor succeeds.
   One try imports AO2Auto and sapi5 (lines 43-53), so AO2Auto stands for both. *)
InitSystemTts(choice, ok) ==
    IF IsSapi5(choice)
    THEN IF win32 THEN "SAPI5_DIRECT"
         ELSE IF AO2Auto /\ ok THEN "SAPI5"
         ELSE "None"
    ELSE IF AO2Auto /\ ok THEN "Auto"
    ELSE "None"

(* one speak() call: how it ended, what it printed, the syntheses it performed itself,
   the state of the thread it started ("-": none), and why it could not speak *)
Call(path, ret, diag, synth, worker, fault) ==
    [path |-> path, ret |-> ret, diag |-> diag, synth |-> synth, worker |-> worker,
     fault |-> fault]

(* the synthesis performed inside speak() *)
InlineSay == Call("thread", "return", << >>, 1, "-", "-")

(* lines 292-321: _sapi5_say starts a daemon thread and returns *)
Sapi5Say == Call("thread", "return", << >>, 0, "started", "-")

(* system_out.speak(text) outside a try *)
UnguardedSpeak(ok, tag) ==
    IF system_out \notin {"None", "SAPI5_DIRECT"}
    THEN IF ok THEN Call("object", "return", << >>, 1, "-", "-")
         ELSE Call("object", "raise", << >>, 0, "-", "raised")
    ELSE Call("print", "return", << tag >>, 0, "-", "no_object")

(* lines 333-339 and 342-348: the accessible_output2 object if there is one, and the
   print when there is none or when its speak raises; ok: it does not raise *)
ObjectSpeak(ok, tag) ==
    IF system_out \notin {"None", "SAPI5_DIRECT"}
    THEN IF ok THEN Call("object", "return", << >>, 1, "-", "-")
         ELSE Call("print", "return", << tag >>, 0, "-", "raised")
    ELSE Call("print", "return", << tag >>, 0, "-", "no_object")

(* line 350: f"[{tts_opt} stub]" *)
StubTag(opt) ==
    CASE opt = TTS_OPTIONS[2] -> "[OpenAI TTS stub]"
      [] opt = TTS_OPTIONS[3] -> "[Google Cloud TTS stub]"
      [] opt = TTS_OPTIONS[4] -> "[Amazon Polly stub]"
      [] OTHER -> "[ElevenLabs stub]"

(* lines 324-350: speak(text) *)
SpeakResult(ok) ==
    IF tts_option = TTS_OPTIONS[1]
    THEN IF IsSapi5(system_tts_backend)
         THEN IF win32 THEN Sapi5Say
              ELSE ObjectSpeak(ok, "[System SAPI5 unavailable]")
         ELSE ObjectSpeak(ok, "[System Auto TTS unavailable]")
    ELSE Call("print", "return", << StubTag(tts_option) >>, 0, "-", "stub")

Speak ==
    /\ Len(calls) < MaxSpeaks
    /\ \E ok \in BOOLEAN : calls' = Append(calls, SpeakResult(ok))
    /\ UNCHANGED << mainvars, sumvars, urlvars, win32, AO2Auto, tts_option,
                    system_tts_backend, system_out, ended >>

(* lines 295-310 of _run: CoInitialize, Dispatch and the voice selection; an exception
   there ends the thread through `except Exception: pass` *)
WorkerRun(i) ==
    /\ calls[i].worker = "started"
    /\ \E ok \in BOOLEAN :
         IF ok
         THEN /\ calls' = [calls EXCEPT ![i].worker = "speaking"]
              /\ UNCHANGED ended
         ELSE /\ calls' = [calls EXCEPT ![i].worker = "failed"]
              /\ ended' = Append(ended, i)
    /\ UNCHANGED << mainvars, sumvars, urlvars, win32, AO2Auto, tts_option,
                    system_tts_backend, system_out >>

(* lines 311-321 of _run: the blocking sp.Speak(text, 0) returns or raises, and the
   thread ends *)
WorkerEnd(i) ==
    /\ calls[i].worker = "speaking"
    /\ \E ok \in BOOLEAN :
         calls' = [calls EXCEPT ![i].worker = IF ok THEN "spoke" ELSE "failed"]
    /\ ended' = Append(ended, i)
    /\ UNCHANGED << mainvars, sumvars, urlvars, win32, AO2Auto, tts_option,
                    system_tts_backend, system_out >>

(* lines 791-804 and 919-923: the speech configuration changes and the window
   makes a new TTSManager from it *)
TtsConfigure ==
    /\ \E opt \in Chars(TTS_OPTIONS), backend \in Chars(SYSTEM_TTS_ENGINES),
          ok \in BOOLEAN :
         /\ tts_option' = opt
         /\ system_tts_backend' = backend
         /\ system_out' = InitSystemTts(backend, ok)
    /\ << tts_option', system_tts_backend', system_out' >>
         # << tts_option, system_tts_backend, system_out >>
    /\ UNCHANGED << mainvars, sumvars, urlvars, win32, AO2Auto, calls, ended >>

InitTts ==
    /\ MainWindowInit
    /\ slots = MaxReaders
    /\ NoSummarizerCall
    /\ NoExtractCall
    /\ win32 \in BOOLEAN
    /\ AO2Auto \in BOOLEAN
    /\ tts_option \in Chars(TTS_OPTIONS)
    /\ system_tts_backend \in Chars(SYSTEM_TTS_ENGINES)
    /\ \E ok \in BOOLEAN : system_out = InitSystemTts(system_tts_backend, ok)
    /\ calls = << >>
    /\ ended = << >>

NextTts ==
    \/ Speak
    \/ \E i \in 1..Len(calls) : WorkerRun(i) \/ WorkerEnd(i)
    \/ TtsConfigure

SpecTts == InitTts /\ [][NextTts]_vars

----------------------------------------------------------------------------
(* extract_youtube_video_id on what can stand in the URL field (lines 932-933) *)

(* the texts: a scheme, a path, an id (a valid one, one of 10 and one of 12 characters,
   one with "!", no id at all) and a tail with a second id, between blanks or not *)
UrlTexts ==
    LET Pads == {<< >>, << " " >>}
        UrlHeads == {
            << >>,
            << "h", "t", "t", "p", "s", ":", "/", "/" >>,
            << "h", "t", "t", "p", "s", ":", "/", "/", "w", "w", "w", "." >>}
        UrlPaths == {
            << >>,
            PAT_YOUTU_BE,
            << "y", "o", "u", "t", "u", "b", "e", ".", "c", "o", "m", "/", "w", "a",
               "t", "c", "h", "?", "v", "=" >>,
            << "y", "o", "u", "t", "u", "b", "e", ".", "c", "o", "m", "/", "l", "i",
               "v", "e", "/" >>,
            << "y", "o", "u", "t", "u", "b", "e", ".", "c", "o", "m", "/", "e", "m",
               "b", "e", "d", "/" >>}
        UrlIds == {
            << "d", "Q", "w", "4", "w", "9", "W", "g", "X", "c", "Q" >>,
            << "d", "Q", "w", "4", "w", "9", "W", "g", "X", "c" >>,
            << "d", "Q", "w", "4", "w", "9", "W", "g", "X", "c", "Q", "x" >>,
            << "d", "Q", "w", "4", "w", "!", "W", "g", "X", "c", "Q" >>,
            NOT_A_URL}
        UrlTails == {
            << >>,
            << "?", "v", "=", "A", "A", "A", "A", "A", "A", "A", "A", "A", "A", "A" >>,
            << "&", "f", "e", "a", "t", "u", "r", "e", "=", "y", "o", "u", "t", "u",
               ".", "b", "e", "/", "B", "_", "-", "B", "B", "B", "B", "B", "B", "B",
               "9" >>}
    IN  {pad \o head \o path \o id \o tail \o pad :
            pad \in Pads, head \in UrlHeads, path \in UrlPaths, id \in UrlIds,
            tail \in UrlTails}

(* lines 932-933: url = self.url_edit.text().strip(); vid = extract_youtube_video_id(url) *)
ExtractCall ==
    /\ vid = NoCall
    /\ url_or_id' = Strip(url_edit)
    /\ vid' = extract_youtube_video_id(Strip(url_edit))
    /\ UNCHANGED << mainvars, sumvars, ttsvars, url_edit >>

InitExtract ==
    /\ MainWindowInit
    /\ slots = MaxReaders
    /\ NoSummarizerCall
    /\ NoSpeakCall
    /\ url_edit \in UrlTexts
    /\ url_or_id = << >>
    /\ vid = NoCall

SpecExtract == InitExtract /\ [][ExtractCall]_vars

----------------------------------------------------------------------------
(* Two ChatReader objects alive at once: _on_stop drops a reader whose thread has not
   ended after 2 s (lines 953-954), and the next _on_start makes another one. *)

InitOverlap ==
    /\ MainWindowInit
    /\ slots = MaxOverlap
    /\ NoSummarizerCall
    /\ NoSpeakCall
    /\ NoExtractCall

MaxOverlapConnects == 1
MaxOverlapMsgs == 1

(* run() with pytchat installed *)
PytchatStep(r) ==
    \/ Run(r) \/ LoopCheck(r) \/ CreateCall(r) \/ CreateReturn(r) \/ AliveCheck(r)
    \/ GetReturn(r) \/ EmitItem(r) \/ AfterInner(r) \/ Except(r)
    \/ BackoffCheck(r) \/ EmitStopped(r)

(* real-time mode, the timer's slot left out (it does nothing in that mode, lines
   1038-1039), a user who only starts, stops and dismisses warnings, and a platform
   that accepts MaxOverlapConnects connects and delivers MaxOverlapMsgs messages *)
NextOverlap ==
    \/ \E r \in Readers :
         /\ PytchatStep(r)
         /\ TotalConnects' <= MaxOverlapConnects
         /\ nextId' <= MaxOverlapMsgs + 1
    \/ OnStart
    \/ OnStop
    \/ OnStopReturn
    \/ Deliver
    \/ Dismiss
    \/ Tick

SpecOverlap == InitOverlap /\ [][NextOverlap]_vars

----------------------------------------------------------------------------
(* The session with a record of the messages that were narrated on their own: the
   fallback backend, every handler of the window, and the delivery of a signal noting
   the message whose line _on_message passed to tts.speak (line 983). *)

(* run() without pytchat, with chat-downloader *)
FallbackStep(r) ==
    \/ Run(r) \/ FbConnectReturn(r) \/ FbNextReturn(r) \/ FbItem(r) \/ FbExcept(r)
    \/ EmitStopped(r)

DeliverNarrated ==
    /\ RunSlot
    /\ narrated' =
         IF /\ Head(queue).sig = "message_received"
            /\ spoken' = << Text(Line(Head(queue).arg)) >>
         THEN narrated \cup {Head(queue).arg.id}
         ELSE narrated
    /\ UNCHANGED << pytchat, ChatDownloader, slots, sumvars, ttsvars, urlvars >>

InitNarration ==
    /\ Init
    /\ ~pytchat
    /\ ChatDownloader

NextNarration ==
    \/ \E r \in Readers : FallbackStep(r)
    \/ OnStart
    \/ OnStop
    \/ OnStopReturn
    \/ DeliverNarrated
    \/ MaybeDoSummary
    \/ OnQuickSummary
    \/ SetChatMode
    \/ Dismiss
    \/ Tick
    \/ GuiClock

SpecNarration == InitNarration /\ [][NextNarration]_vars

----------------------------------------------------------------------------
(* Properties *)

RECURSIVE Flatten(_)
Flatten(ss) == IF ss = << >> THEN << >> ELSE Head(ss) \o Flatten(Tail(ss))

Ids(s) == [i \in 1..Len(s) |-> s[i].id]

NoDup(s) == \A i, j \in 1..Len(s) : i # j => s[i] # s[j]

IsPrefix(s, t) == Len(s) <= Len(t) /\ SubSeq(t, 1, Len(s)) = s

InSeq(n, s) == \E i \in 1..Len(s) : s[i].id = n

(* a step of _maybe_do_summary that flushes *)
IsFlush == batches' = Append(batches, pending_messages)

(* a step of _on_start that starts a session *)
IsStart == \E r \in Readers : pc[r] \in {"none", "done"} /\ pc'[r] = "run"

(* C1: for every interleaving of _on_message and _maybe_do_summary, a message is in at
   most one flushed batch and, once flushed, no longer in the buffer; the batch of a
   flush is exactly the buffer as it was before the flush, the flush empties the
   buffer, and the earlier batches never change. *)
C1_FlushPartition ==
    /\ [](NoDup(Ids(Flatten(batches) \o pending_messages)))
    /\ [][batches' # batches =>
            /\ batches' = Append(batches, pending_messages)
            /\ pending_messages # << >>
            /\ pending_messages' = << >>]_vars

(* C1: a flush has happened and a message that arrived after it is buffered *)
C1_Witness ==
    /\ batches # << >>
    /\ pending_messages # << >>

(* C2, as stated: a buffered message leaves pending_messages only by a periodic flush;
   every other step keeps the buffer as a prefix of the new buffer. *)
C2_OnlyFlushRemoves ==
    [][IsPrefix(pending_messages, pending_messages') \/ IsFlush]_vars

(* C2, amended: a buffered message leaves pending_messages only by a periodic flush,
   which hands it to the Summarizer, or by _on_start starting a session, which empties
   the buffer; every other step keeps the buffer as a prefix of the new buffer. *)
C2_OnlyFlushOrStartRemoves ==
    [][\/ IsPrefix(pending_messages, pending_messages')
       \/ IsFlush
       \/ (IsStart /\ pending_messages' = << >>)]_vars

(* C2: a message pytchat delivered is in no poll result, no queued signal, not in the
   buffer and in no batch: a start of a session has dropped it from the buffer *)
C2_Witness ==
    /\ pytchat
    /\ \E n \in 1..(nextId - 1) :
         /\ \A r \in Readers : ~InSeq(n, items[r])
         /\ \A i \in 1..Len(queue) :
              queue[i].sig = "message_received" => queue[i].arg.id # n
         /\ ~InSeq(n, pending_messages)
         /\ ~InSeq(n, Flatten(batches))

(* C3: once stop() has set the flag, run() is out of its backoff wait within one poll
   interval: while _on_stop waits for the thread, more than one poll interval after
   stop(), the thread is not in time.sleep(10). *)
C3_BackoffInterruptible ==
    \A r \in Readers :
        (gui = "stop_wait" /\ reader = r /\ JoinWaitMs - waitLeft > PollMs)
            => pc[r] # "backoff_sleep"

(* C4: a ChatReader has at most one backend handle open, and none when it begins a
   connect attempt or has emitted `stopped`, under either backend. *)
C4_HandlesTerminated ==
    \A r \in Readers :
        /\ handles[r] <= 1
        /\ pc[r] \in {"create", "creating", "fb_connecting", "done"} => handles[r] = 0

(* C5: no connect call of a ChatReader begins while its stop flag is set. *)
C5_NoConnectAfterStop ==
    \A r \in Readers : lateConnects[r] = 0

(* C6: when a connect attempt of a ChatReader begins or is in flight after a loop exit
   (liveness lost, exception in connect, exception while polling), a full backoff
   window has passed since that exit. *)
C6_BackoffBeforeConnect ==
    \A r \in Readers :
        (pc[r] \in {"create", "creating"} /\ sinceExit[r] >= 0)
            => sinceExit[r] >= BackoffMs

(* C6: a reconnect attempt is in flight, one backoff window after the loop exit *)
C6_Witness ==
    \E r \in Readers :
        /\ pc[r] = "creating"
        /\ connects[r] >= 2
        /\ sinceExit[r] = BackoffMs

(* C7: when the first connect of a ChatReader succeeds after k failed ones and stop was
   not requested, k notices have been emitted and each is a "reconnecting" notice for
   _on_error. *)
C7_ReconnectingNotices ==
    \A r \in Readers :
        (pytchat /\ pc[r] = "alive_check" /\ opened[r] = 1 /\ ~stop[r])
            => /\ nErrs[r] = connects[r] - 1
               /\ nRecon[r] = connects[r] - 1

(* C8: every error run() emits for a transient ingestion error (liveness lost, an
   exception in connect or while polling) takes the status-bar path of _on_error, and
   after it the ChatReader emits `stopped` only if stop() was called. *)
C8_TransientNonBlocking ==
    /\ \A i \in 1..Len(queue) :
         (queue[i].sig = "error_message" /\ queue[i].arg.fmt \in {"lost", "reader_err"})
             => ErrorPath(queue[i].arg) = "status"
    /\ \A r \in Readers :
         (lastErr[r].fmt \in {"lost", "reader_err"} /\ pc[r] \in {"emit_stopped", "done"})
             => stop[r]

(* C9: under either backend, a ChatReader whose last error was a transient one (not
   "chat disabled", not "no backend") emits `stopped` only if stop() was called. *)
C9_TransientNeverStops ==
    \A r \in Readers :
        (/\ lastErr[r].fmt \in {"lost", "reader_err", "downloader_err"}
         /\ pc[r] \in {"emit_stopped", "done"})
            => stop[r]

(* C10: when the fallback raises the "chat disabled" exception, run() emits "Live chat
   is disabled for this stream." as its one and only error and goes on to emit
   `stopped`; after that error there is no further connect or poll. *)
C10_DisabledOnceThenStopped ==
    /\ [](\A r \in Readers :
            lastErr[r] = ErrDisabled =>
                /\ nErrs[r] = 1
                /\ connects[r] = 1
                /\ pc[r] \in {"emit_stopped", "done"}
                /\ nStopped[r] = (IF pc[r] = "done" THEN 1 ELSE 0))
    /\ [][\A r \in Readers :
            (pc[r] = "fb_except" /\ exc[r] = "chat_disabled" /\ pc'[r] # pc[r]) =>
                /\ lastErr'[r] = ErrDisabled
                /\ ErrText(lastErr'[r]) = DISABLED_TEXT
                /\ queue' = Append(queue, Signal("error_message", r, ErrDisabled))
                /\ pc'[r] = "emit_stopped"]_vars

(* C10: the "chat disabled" error was emitted and run() has emitted `stopped` *)
C10_Witness ==
    \E r \in Readers :
        /\ lastErr[r] = ErrDisabled
        /\ pc[r] = "done"
        /\ nStopped[r] = 1

(* a slot took a signal off the queue, and the signal carried a message *)
DeliveredMsg ==
    /\ Len(queue') < Len(queue)
    /\ Head(queue).sig = "message_received"

(* the slot that ran was the timer's, the interval was not over or nothing was to be
   flushed, and time went on *)
IsClock == elapsed' # elapsed /\ elapsed' # 0

(* the slot that ran was _on_quick_summary *)
IsQuick ==
    /\ outs' # outs
    /\ \/ spoken' = << Text(QUICK_EMPTY_TEXT) >>
       \/ (summarized' # << >> /\ batches' = batches)

(* the last k elements of s, in the order of s *)
LastK(s, k) == [i \in 1..k |-> s[Len(s) - k + i]]

(* C11: with neither backend available, run() makes no connect attempt and no message
   exists; it emits the one error "No chat backend is available. ..." and then
   `stopped`, in that order. *)
C11_NoBackend ==
    \A r \in Readers :
        (~pytchat /\ ~ChatDownloader /\ pc[r] # "none") =>
            /\ pc[r] \in {"run", "emit_stopped", "done"}
            /\ connects[r] = 0 /\ opened[r] = 0 /\ handles[r] = 0
            /\ nextId = 1
            /\ pending_messages = << >>
            /\ \A i \in 1..Len(queue) : queue[i].sig # "message_received"
            /\ \A i, j \in 1..Len(queue) :
                 (i < j /\ queue[i].rd = r /\ queue[i].sig = "stopped") =>
                     ~(queue[j].rd = r /\ queue[j].sig = "error_message")
            /\ pc[r] = "run" => (nErrs[r] = 0 /\ nStopped[r] = 0)
            /\ pc[r] # "run" =>
                 /\ nErrs[r] = 1
                 /\ ErrText(lastErr[r]) = NO_BACKEND_TEXT
                 /\ nStopped[r] = (IF pc[r] = "done" THEN 1 ELSE 0)

(* C11: without a backend, run() has emitted its error and `stopped` *)
C11_Witness ==
    \E r \in Readers :
        /\ ~pytchat /\ ~ChatDownloader
        /\ pc[r] = "done"
        /\ nErrs[r] = 1
        /\ nStopped[r] = 1

(* C12: when pytchat is available a ChatReader is never in the fallback branch, at its
   first connect or at any reconnect, and a ChatReader in the fallback branch means
   pytchat is unavailable and chat-downloader available; the fallback connects once. *)
C12_BackendChosenOnce ==
    \A r \in Readers :
        /\ pc[r] \in {"fb_connecting", "fb_next", "fb_item", "fb_except"} =>
              (~pytchat /\ ChatDownloader /\ connects[r] = 1)
        /\ pc[r] \in {"loop", "create", "creating", "alive_check", "getting",
                      "emit_items", "poll_sleep", "after_inner", "except",
                      "backoff_check", "backoff_sleep"} => pytchat
        /\ connects[r] > 0 => (pytchat \/ ChatDownloader)

(* C12: both backends are available and a reconnect is made with pytchat *)
C12_Witness ==
    \E r \in Readers :
        /\ pytchat /\ ChatDownloader
        /\ pc[r] = "creating"
        /\ connects[r] >= 2

(* C13: a ChatReader's stop flag is never cleared; after `stopped` the reader takes no
   step, connects no more and emits nothing, and it emits `stopped` once; a start makes
   a reader whose flag is clear and whose run() starts from the beginning, which
   becomes MainWindow.reader.  (A reader that is done leaves its place in the model to
   the reader a later start creates.) *)
C13_StoppedTerminal ==
    /\ [](\A r \in Readers : nStopped[r] <= 1 /\ (nStopped[r] = 1 <=> pc[r] = "done"))
    /\ [][\A r \in Readers :
            LET created == pc[r] \in {"none", "done"} /\ pc'[r] = "run" IN
            /\ created =>
                 /\ ~stop'[r]
                 /\ connects'[r] = 0
                 /\ nStopped'[r] = 0
                 /\ reader' = r
            /\ (stop[r] /\ ~created) => stop'[r]
            /\ (pc[r] = "done" /\ ~created) =>
                 /\ pc'[r] = "done"
                 /\ connects'[r] = connects[r]
                 /\ nErrs'[r] = nErrs[r]
                 /\ nStopped'[r] = nStopped[r]
                 /\ Len(queue') > Len(queue) => queue'[Len(queue')].rd # r]_vars

(* C13: pytchat delivered messages to a reader that was stopped since, and a new reader
   with a clear stop flag has been started *)
C13_Witness ==
    \E r \in Readers :
        /\ pytchat
        /\ nextId > 1
        /\ pc[r] = "run"
        /\ ~stop[r]
        /\ reader = r

(* C14: a flush happens only with a non-empty buffer and sets the baseline to the time
   of the flush; the baseline is reset by nothing but a flush or the start of a
   session; a timer check that does not flush only lets time go on, the buffer and the
   batches as they were. *)
C14_FlushAndBaseline ==
    [][/\ batches' # batches =>
            /\ pending_messages # << >>
            /\ elapsed' = 0
       /\ (elapsed' = 0 /\ elapsed # 0) => (IsFlush \/ IsStart)
       /\ IsClock =>
            /\ elapsed' > elapsed
            /\ pending_messages' = pending_messages
            /\ batches' = batches]_vars

(* C14: after a flush, a timer check found the interval over and the buffer empty *)
C14_Witness ==
    /\ chat_mode = CHAT_MODES[2]
    /\ batches # << >>
    /\ pending_messages = << >>
    /\ elapsed >= summary_interval * MsPerMinute

(* C15: a flush happens only in periodic mode at a timer check at which at least the
   interval (at least one minute) has passed since the baseline; it hands the whole
   buffer, in order, to the Summarizer in one call, narrates the summary, empties the
   buffer and resets the baseline; and a timer check in periodic mode with the interval
   over and a non-empty buffer does flush. *)
C15_FlushWhenDue ==
    [][LET now == Min(ElapsedCap, elapsed + TimerMs)
           over == now >= Max(1, summary_interval) * MsPerMinute
       IN
       /\ batches' # batches =>
            /\ chat_mode = CHAT_MODES[2]
            /\ over
            /\ batches' = Append(batches, pending_messages)
            /\ summarized' = << pending_messages >>
            /\ spoken' = << SummaryOf(pending_messages) >>
            /\ pending_messages' = << >>
            /\ elapsed' = 0
       /\ (IsClock /\ elapsed' = now /\ chat_mode = CHAT_MODES[2]
             /\ pending_messages # << >>) => ~over]_vars

(* C15: a flush has just happened *)
C15_Witness ==
    /\ batches # << >>
    /\ summarized = << batches[Len(batches)] >>
    /\ spoken = << SummaryOf(batches[Len(batches)]) >>
    /\ pending_messages = << >>
    /\ elapsed = 0

(* C16: in real-time mode the delivery of a message makes one tts.speak call, with
   "<author>: <text>", appends the message once to the buffer and makes no summarize
   call; messages are delivered, and so narrated, in the order of the queue. *)
C16_RealTimeNarration ==
    [][(DeliveredMsg /\ chat_mode = CHAT_MODES[1]) =>
          LET m == Head(queue).arg IN
          /\ queue' = Tail(queue)
          /\ spoken' = << Text(m.author \o << ":", " " >> \o m.text) >>
          /\ summarized' = << >>
          /\ pending_messages' = Append(pending_messages, m)
          /\ batches' = batches]_vars

(* C16: the message a: hi was delivered in real-time mode: one narration "a: hi", one
   message in the buffer, no summarize call *)
C16_Witness ==
    /\ spoken = << Text(<< "a", ":", " ", "h", "i" >>) >>
    /\ Len(pending_messages) = 1
    /\ summarized = << >>
    /\ batches = << >>

(* C17: in periodic mode the delivery of a message appends it to the buffer and makes
   no tts.speak call; a tts.speak call made in periodic mode is that of a flush or of a
   quick summary. *)
C17_PeriodicNoNarration ==
    [][/\ (DeliveredMsg /\ chat_mode = CHAT_MODES[2]) =>
            /\ spoken' = << >>
            /\ summarized' = << >>
            /\ pending_messages' = Append(pending_messages, Head(queue).arg)
       /\ (chat_mode = CHAT_MODES[2] /\ spoken' # << >> /\ spoken' # spoken) =>
            (IsFlush \/ IsQuick)]_vars

(* C17: periodic mode, a message is in the buffer and the last slot narrated nothing *)
C17_Witness ==
    /\ chat_mode = CHAT_MODES[2]
    /\ Len(pending_messages) = MaxMsgs
    /\ spoken = << >>
    /\ batches = << >>

(* C18: for every buffer and every count n in 5..500, the list a quick summary hands to
   the Summarizer is the min(n, length) last messages of the buffer, in their order. *)
C18_SuffixRead ==
    [][(IsQuick /\ pending_messages # << >>) =>
          /\ quick_summary_count \in MinQuickCount..MaxQuickCount
          /\ summarized' =
               << LastK(pending_messages,
                        Min(quick_summary_count, Len(pending_messages))) >>]_vars

(* C18: a quick summary of a buffer longer than the count *)
C18_Witness ==
    /\ summarized # << >>
    /\ Len(summarized[1]) = quick_summary_count
    /\ Len(pending_messages) > quick_summary_count
    /\ summarized[1][1] = pending_messages[Len(pending_messages) - quick_summary_count + 1]

(* C19: a quick summary, in either mode and with an empty or a non-empty buffer, leaves
   the buffer, the batches and the time since the baseline as they were. *)
C19_QuickSummaryFrame ==
    [][IsQuick =>
          /\ pending_messages' = pending_messages
          /\ elapsed' = elapsed
          /\ batches' = batches]_vars

(* C19: a quick summary was made of a buffer that is still there, with time on the
   baseline *)
C19_Witness ==
    /\ pending_messages # << >>
    /\ summarized = << pending_messages >>
    /\ elapsed > 0

(* C20: a quick summary of an empty buffer makes no summarize call and one tts.speak
   call, with "No recent messages to summarize." *)
C20_QuickSummaryEmpty ==
    [][(IsQuick /\ pending_messages = << >>) =>
          /\ summarized' = << >>
          /\ spoken' = << Text(QUICK_EMPTY_TEXT) >>]_vars

(* C20: a quick summary of an empty buffer was made *)
C20_Witness ==
    /\ pending_messages = << >>
    /\ spoken = << Text(QUICK_EMPTY_TEXT) >>
    /\ summarized = << >>

----------------------------------------------------------------------------
(* Summarizer *)

KW_QUIET_CHAT ==
    << "T", "h", "e", " ", "c", "h", "a", "t", " ", "i", "s", " ", "v", "e", "r", "y",
       " ", "q", "u", "i", "e", "t" >>

KW_VIBE ==
    << "c", "a", "p", "t", "u", "r", "e", " ", "t", "h", "e", " ", "m", "a", "i", "n",
       " ", "v", "i", "b", "e" >>

(* the lines of s *)
RECURSIVE SplitLines(_)
SplitLines(s) ==
    IF \A i \in 1..Len(s) : s[i] # "\n" THEN << s >>
    ELSE LET k == CHOOSE i \in 1..Len(s) : s[i] = "\n" /\ \A j \in 1..(i - 1) : s[j] # "\n"
         IN  << SubSeq(s, 1, k - 1) >> \o SplitLines(SubSeq(s, k + 1, Len(s)))

(* the lines of the prompt that follow "Here are the recent messages:" *)
ListedIn(prompt) ==
    LET k == CHOOSE i \in 1..Len(prompt) :
                 /\ i + Len(CHAT_HEADER) - 1 <= Len(prompt)
                 /\ SubSeq(prompt, i, i + Len(CHAT_HEADER) - 1) = CHAT_HEADER
    IN  SplitLines(SubSeq(prompt, k + Len(CHAT_HEADER), Len(prompt)))

(* C21: summarize selects its branch by the size of the batch alone.  For the empty
   batch it returns the fixed filler text and hands no prompt to the provider path;
   for 1 to 4 messages the one prompt it builds carries the "quiet chat" instruction
   and not the "capture the vibe" one; for 5 and more it is the other way round; and
   the lines that follow the header of the prompt are "author: text", one per message,
   in the order of the batch. *)
C21_PromptBySize ==
    summary # NoReturn =>
        LET n == Len(messages)
        IN  /\ n = 0 => summary = Returned(QUIET_TEXT) /\ prompt_text = << >>
            /\ n > 0 =>
                 /\ Len(prompt_text) = 1
                 /\ Contains(KW_QUIET_CHAT, prompt_text[1]) <=> n \in 1..4
                 /\ Contains(KW_VIBE, prompt_text[1]) <=> n >= 5
                 /\ ListedIn(prompt_text[1])
                      = [i \in 1..n |->
                           messages[i].author \o << ":", " " >> \o messages[i].text]

(* a batch of exactly five messages, newest first, got the "vibe" prompt *)
C21_Witness ==
    /\ summary # NoReturn
    /\ Len(messages) = 5
    /\ messages[1].id > messages[2].id
    /\ Contains(KW_VIBE, prompt_text[1])

(* C22: summarize always returns and never raises.  For the empty batch, a missing
   library, a missing key, a provider call that raises and a provider response whose
   content is None or the empty string, what it returns is a non-empty text: the fixed
   text of that case, or the error text that quotes the exception. *)
C22_SummarizeNeverRaises ==
    summary # NoReturn =>
        /\ summary.returned /\ ~summary.raised
        /\ messages = << >> => summary.text = QUIET_TEXT
        /\ (messages # << >> /\ ~openai) => summary.text = NO_LIBRARY_TEXT
        /\ (messages # << >> /\ openai /\ ~api_key) => summary.text = NO_KEY_TEXT
        /\ (messages # << >> /\ openai /\ api_key /\ response.raises) =>
             /\ Contains(response.content, summary.text)
             /\ Len(summary.text) > Len(response.content)
        /\ (messages # << >> /\ openai /\ api_key /\ ~response.raises
              /\ (response.none \/ response.content = << >>)) =>
             summary.text = EMPTY_SUMMARY_TEXT
        /\ (messages = << >> \/ ~openai \/ ~api_key \/ response.raises \/ response.none
              \/ response.content = << >>) => summary.text # << >>

(* the provider call raised and summarize returned the error text *)
C22_Witness ==
    /\ summary.returned
    /\ messages # << >>
    /\ openai /\ api_key /\ response.raises
    /\ summary.text = API_ERROR_PREFIX \o EXC_TIMEOUT \o << ")" >>

----------------------------------------------------------------------------
(* TTSManager *)

(* the call could not speak: there was no speech object, the object's speak raised,
   the option is one of the cloud stubs, or the thread of the direct path failed *)
Unavailable(c) == c.fault # "-" \/ c.worker = "failed"

(* C23 as stated: every speak() call returns normally, and a call whose backend was
   unavailable performed no synthesis and wrote exactly one diagnostic. *)
C23_OneDiagnostic ==
    \A i \in 1..Len(calls) :
        /\ calls[i].ret = "return"
        /\ Unavailable(calls[i]) =>
             /\ calls[i].synth = 0
             /\ calls[i].worker # "spoke"
             /\ Len(calls[i].diag) = 1

(* C23, amended: every speak() call returns normally.  A call that finds no speech
   object, or whose speech object raises, or whose option is a cloud stub, performs no
   synthesis and writes exactly one diagnostic; a call of the direct SAPI5 path writes
   no diagnostic at all, also when its thread fails, and a call that spoke writes none
   either. *)
C23_SpeakNeverRaises ==
    \A i \in 1..Len(calls) :
        /\ calls[i].ret = "return"
        /\ calls[i].fault # "-" =>
             /\ calls[i].synth = 0
             /\ calls[i].worker = "-"
             /\ Len(calls[i].diag) = 1
        /\ calls[i].fault = "-" => calls[i].diag = << >>
        /\ calls[i].worker = "failed" => calls[i].synth = 0 /\ calls[i].diag = << >>

(* the speech object raised, and the thread of a direct call failed *)
C23_Witness ==
    /\ \E i \in 1..Len(calls) : calls[i].fault = "raised" /\ Len(calls[i].diag) = 1
    /\ \E i \in 1..Len(calls) : calls[i].worker = "failed"

(* C24: with the system option, the SAPI5 backend and pywin32 present, every speak()
   call starts one new thread and returns without having synthesised anything itself,
   whatever the threads of earlier calls are doing and without touching them; and the
   threads run independently: a step of one thread changes no other call. *)
C24_ThreadPerSpeak ==
    [][ /\ (Len(calls') = Len(calls) + 1
              /\ tts_option = TTS_OPTIONS[1] /\ IsSapi5(system_tts_backend) /\ win32) =>
             /\ SubSeq(calls', 1, Len(calls)) = calls
             /\ calls'[Len(calls')].worker = "started"
             /\ calls'[Len(calls')].ret = "return"
             /\ calls'[Len(calls')].synth = 0
             /\ ended' = ended
        /\ \A i \in 1..Len(calls) :
             (Len(calls') = Len(calls) /\ calls'[i] # calls[i]) =>
                 /\ \A j \in 1..Len(calls) : j # i => calls'[j] = calls[j]
                 /\ calls[i].worker \in {"started", "speaking"}
      ]_vars

(* the threads of the first and the third call are synthesising at the same time, and
   the thread of the second call has finished before the first *)
C24_Witness ==
    /\ Len(calls) = 3
    /\ calls[1].worker = "speaking"
    /\ calls[2].worker = "spoke"
    /\ calls[3].worker = "speaking"
    /\ ended = << 2 >>

----------------------------------------------------------------------------
(* MainWindow: sessions *)

(* a step of _on_start that rejects its input: the warning opens (line 935) and, unlike
   in _on_error, no queued signal is consumed *)
IsRejectedStart == ~modal /\ modal' /\ queue' = queue

(* C25: a step of _on_start that rejects its input creates no ChatReader and begins no
   connect (no reader's thread position, stop flag, handle or counter changes), and
   leaves the buffer, the baseline, both buttons and MainWindow.reader as they were. *)
C25_RejectedStartChangesNothing ==
    [][ IsRejectedStart =>
          /\ pc' = pc /\ stop' = stop /\ chat' = chat
          /\ connects' = connects /\ handles' = handles /\ opened' = opened
          /\ rvars' = rvars
          /\ reader' = reader
          /\ start_btn' = start_btn /\ stop_btn' = stop_btn
          /\ pending_messages' = pending_messages
          /\ elapsed' = elapsed
          /\ batches' = batches
      ]_vars

(* the warning is open although no reader has emitted an error, so a start was
   rejected; an earlier session has ended and its messages are still in the buffer *)
C25_Witness ==
    /\ modal
    /\ \A r \in Readers : nErrs[r] = 0
    /\ \E r \in Readers : pc[r] = "done"
    /\ pending_messages # << >>
    /\ start_btn

----------------------------------------------------------------------------
(* extract_youtube_video_id *)

(* s is eleven characters, each a letter, a digit, "_" or "-" *)
IsVideoId(s) ==
    /\ Len(s) = 11
    /\ \A i \in 1..Len(s) :
         \/ \E k \in 1..26 : s[i] = UPPER[k] \/ s[i] = LOWER[k]
         \/ \E k \in 1..10 : s[i] = DIGITS[k]
         \/ s[i] \in {"_", "-"}

(* the ids that follow an occurrence of `lit` in s *)
Captures(lit, s) ==
    {SubSeq(s, i + Len(lit), i + Len(lit) + 10) :
        i \in {j \in 1..Len(s) : /\ j + Len(lit) + 10 <= Len(s)
                                 /\ SubSeq(s, j, j + Len(lit) - 1) = lit
                                 /\ IsVideoId(SubSeq(s, j + Len(lit), j + Len(lit) + 10))}}

(* C27: called with the text of the URL field as _on_start passes it, the function
   returns the argument itself when that is exactly an 11-character id; otherwise an id
   that follows "youtu.be/" if there is one; otherwise one that follows "v=" if there
   is one; otherwise one that follows "live/" if there is one; otherwise None.  In
   particular "https://www.youtu.be/dQw4w9WgXcQ" yields "dQw4w9WgXcQ" and "not a url"
   yields None. *)
C27_ExtractId ==
    vid # NoCall =>
        /\ IF IsVideoId(url_or_id) THEN vid = url_or_id
           ELSE IF Captures(PAT_YOUTU_BE, url_or_id) # {}
                THEN vid \in Captures(PAT_YOUTU_BE, url_or_id)
           ELSE IF Captures(PAT_V, url_or_id) # {}
                THEN vid \in Captures(PAT_V, url_or_id)
           ELSE IF Captures(PAT_LIVE, url_or_id) # {}
                THEN vid \in Captures(PAT_LIVE, url_or_id)
           ELSE vid = NoId
        /\ url_or_id = SCENARIO_URL =>
             vid =
                << "d", "Q", "w", "4", "w", "9", "W", "g", "X", "c", "Q" >>
        /\ url_or_id = NOT_A_URL => vid = NoId

(* a URL in which "v=" comes before "youtu.be/": the id after "youtu.be/" is returned *)
C27_Witness ==
    /\ url_or_id =
        << "h", "t", "t", "p", "s", ":", "/", "/", "w", "w", "w", ".", "y", "o", "u",
           "t", "u", "b", "e", ".", "c", "o", "m", "/", "w", "a", "t", "c", "h", "?",
           "v", "=", "d", "Q", "w", "4", "w", "9", "W", "g", "X", "c", "Q", "&", "f",
           "e", "a", "t", "u", "r", "e", "=", "y", "o", "u", "t", "u", ".", "b", "e",
           "/", "B", "_", "-", "B", "B", "B", "B", "B", "B", "B", "9" >>
    /\ vid =
        << "B", "_", "-", "B", "B", "B", "B", "B", "B", "B", "9" >>

(* the messages of the queued signals, in queue order *)
RECURSIVE QueuedMsgs(_)
QueuedMsgs(q) ==
    IF q = << >> THEN << >>
    ELSE IF Head(q).sig = "message_received" THEN << Head(q).arg >> \o QueuedMsgs(Tail(q))
    ELSE QueuedMsgs(Tail(q))

(* a reader hands the first item of its poll result to the signal *)
Emitted(r) ==
    /\ Len(items'[r]) < Len(items[r])
    /\ Len(queue') > Len(queue)

(* C26: a message is emitted by putting it at the end of the signal queue, the items of
   one poll in their order; the queue only ever loses its head and gains at its end;
   the slot that takes a message off the queue appends exactly that message to the end
   of the buffer; apart from that the buffer changes only by being emptied; every list
   handed to the summarizer is the buffer or a suffix of it, in the buffer's order; no
   message is in the buffer or on its way to it twice; and every step that changes the
   buffer or hands a list to the summarizer is a slot on the GUI thread, never a step
   of a reader's thread. *)
C26_BufferOrder ==
    /\ [](NoDup(Ids(pending_messages \o QueuedMsgs(queue))))
    /\ [][ /\ \/ queue' = queue
              \/ queue # << >> /\ queue' = Tail(queue)
              \/ Len(queue') = Len(queue) + 1 /\ SubSeq(queue', 1, Len(queue)) = queue
           /\ \A r \in Readers :
                Emitted(r) =>
                    /\ queue'[Len(queue')].sig = "message_received"
                    /\ queue'[Len(queue')].rd = r
                    /\ queue'[Len(queue')].arg.id = Head(items[r]).id
                    /\ items'[r] = Tail(items[r])
           /\ (queue # << >> /\ queue' = Tail(queue)
                 /\ Head(queue).sig = "message_received") =>
                pending_messages' = pending_messages \o << Head(queue).arg >>
           /\ pending_messages' # pending_messages =>
                /\ gui = "idle"
                /\ pc' = pc \/ IsStart
                /\ \/ pending_messages' = << >>
                   \/ /\ queue # << >> /\ queue' = Tail(queue)
                      /\ Head(queue).sig = "message_received"
           /\ summarized' # summarized =>
                /\ gui = "idle"
                /\ pc' = pc \/ IsStart
                /\ \A i \in 1..Len(summarized') :
                     \E k \in 1..(Len(pending_messages) + 1) :
                        summarized'[i] = SubSeq(pending_messages, k, Len(pending_messages))
         ]_vars

(* two messages of one poll have reached the buffer in the order of the poll *)
C26_Witness ==
    /\ Len(pending_messages) = 2
    /\ pending_messages[1].id + 1 = pending_messages[2].id
    /\ \E r \in Readers : pc[r] = "poll_sleep" /\ opened[r] = 1

(* a slot takes a message off the queue *)
TakesMsg == queue # << >> /\ queue' = Tail(queue) /\ Head(queue).sig = "message_received"

(* C29: once _on_stop has stopped and dropped a reader, and until the next _on_start,
   no slot takes a message of that reader off the queue (the slot would append it to
   the buffer, log it and, in real-time mode, narrate it). *)
C29_NoMessageAfterStop ==
    [][ ~(TakesMsg /\ reader = 0 /\ stop[Head(queue).rd]) ]_vars

(* the thread of reader r is inside run() and nobody has called its stop() *)
Running(r) == pc[r] \notin {"none", "done"} /\ ~stop[r]

(* C28: at most one ChatReader is running without having been asked to stop, and
   while there is one the Stop button is enabled and the Start button is disabled. *)
C28_OneReaderControlsAgree ==
    /\ Cardinality({r \in Readers : Running(r)}) <= 1
    /\ \A r \in Readers : Running(r) => stop_btn /\ ~start_btn

(* C30: while MainWindow.reader is the reader of the session begun by the last
   _on_start, every message a slot takes off the queue (and appends to the buffer that
   _on_start cleared) was emitted by that reader. *)
C30_OnlyOwnMessages ==
    [][ (TakesMsg /\ reader # 0) => Head(queue).rd = reader ]_vars

(* C31: a run of ChatReader.run that has returned has emitted `stopped` exactly once,
   and a run that has not returned has not emitted it; run() returns by nothing but
   the step that emits `stopped`, which puts it at the end of the signal queue; no
   signal of a reader follows its `stopped` in the queue, and a reader whose run has
   returned emits nothing more; and run() gets to the emission on each of its paths:
   the pytchat loop left with the stop flag set, the fallback stream ended or
   stopped, the fallback's exception reported (chat disabled or not), and no backend
   available, reported. *)
C31_StoppedOnceAndLast ==
    /\ [](\A r \in Readers :
            /\ nStopped[r] = (IF pc[r] = "done" THEN 1 ELSE 0)
            /\ \A i \in 1..Len(queue) :
                 (queue[i].rd = r /\ queue[i].sig = "stopped") =>
                    /\ pc[r] = "done"
                    /\ \A j \in (i + 1)..Len(queue) : queue[j].rd # r)
    /\ [][\A r \in Readers :
            /\ (pc[r] # "done" /\ pc'[r] = "done") =>
                 /\ pc[r] = "emit_stopped"
                 /\ queue' = Append(queue, Signal("stopped", r, NoArg))
            /\ (pc[r] = "done" /\ pc'[r] = "done" /\ Len(queue') > Len(queue)) =>
                 queue'[Len(queue')].rd # r
            /\ (pc[r] # "emit_stopped" /\ pc'[r] = "emit_stopped") =>
                 \/ /\ Backend = "pytchat"
                    /\ stop[r]
                    /\ pc[r] \in {"loop", "backoff_sleep", "after_inner"}
                    /\ queue' = queue
                 \/ /\ Backend = "chat_downloader"
                    /\ pc[r] \in {"fb_next", "fb_item"}
                    /\ pc[r] = "fb_item" => stop[r]
                    /\ queue' = queue
                 \/ /\ Backend = "chat_downloader"
                    /\ pc[r] = "fb_except"
                    /\ queue' = Append(queue, Signal("error_message", r, FbError(exc[r])))
                 \/ /\ Backend = "none"
                    /\ pc[r] = "run"
                    /\ queue' = Append(queue, Signal("error_message", r, ErrNoBackend))
            /\ (pc[r] = "emit_stopped" /\ pc'[r] # "emit_stopped") => pc'[r] = "done"
         ]_vars

(* C31: the fallback stream raised, run() reported it and then emitted `stopped`, and
   both signals are in the queue in that order *)
C31_Witness ==
    \E r \in Readers :
        /\ Backend = "chat_downloader"
        /\ pc[r] = "done"
        /\ nStopped[r] = 1
        /\ Len(queue) = 2
        /\ queue[1] = Signal("error_message", r, ErrDownloader("timeout"))
        /\ queue[2] = Signal("stopped", r, NoArg)

(* message n is in a batch that _maybe_do_summary handed to the summarizer *)
InBatch(n) == \E i \in 1..Len(batches) : InSeq(n, batches[i])

(* C32: a message that _on_message narrated on its own (it was delivered in real-time
   mode) is in no batch of a periodic summary, whatever was done to the chat mode
   since. *)
C32_NarratedNeverSummarized ==
    \A n \in narrated : ~InBatch(n)

====
